---- MODULE Spec2Model ----
(***************************************************************************)
(* The report computation engine of mis_builder                            *)
(* (src/mis_builder/models/mis_builder.py): MisReport._compute, the KPI    *)
(* evaluator with its retry loop, what it calls, and                       *)
(* MisReportInstance._compute, which runs it for each period and which it  *)
(* calls back for the sub-reports its KPIs name.                           *)
(*                                                                         *)
(* Python values are tagged records [t, n]; a KPI expression is a syntax   *)
(* tree (a tuple whose first element is the node's tag) evaluated left to  *)
(* right as Python evaluates it, the first exception raised ending the     *)
(* evaluation.                                                             *)
(***************************************************************************)
EXTENDS Integers, Sequences, FiniteSets, TLC

\* ------------------------------------------------------------------ bounds
\* The largest number of KPIs of a template computed for one period.
MaxKpis == 3
\* The largest number of KPIs of the report of an instance, and the largest
\* number of periods of the instance.
MaxInstKpis == 2
MaxPeriods == 2
\* render_comparison: the largest precision, value and normalize factor.
MaxDp == 1
MaxValue == 2
MaxFactor == 2
\* The nested activations of MisReportInstance._compute the interpreter runs
\* before it refuses a deeper call (its recursion limit).
MaxDepth == 3

\* KPI names, in declaration order (the i-th KPI of a template is Names[i]).
Names == <<"a", "b", "c", "d", "e", "f">>

\* ------------------------------------------------------------------ values
Num(n) == [t |-> "num", n |-> n]
Str == [t |-> "str", n |-> 0]
PyNone == [t |-> "None", n |-> 0]
AccountingNone == [t |-> "AccountingNone", n |-> 0]
Builtin == [t |-> "builtin", n |-> 0]
AutoStruct == [t |-> "AutoStruct", n |-> 0]
\* self.pool, the registry of the models of the database.
Registry == [t |-> "registry", n |-> 0]

Ok(v) == [exc |-> "none", v |-> v]
Raise(e) == [exc |-> e, v |-> PyNone]

\* ------------------------------------------------------- expression syntax
\* 2, 's', a name, l + r, l / r, int(x), code.name; the empty string (no
\* expression).
Lit(n) == <<"num", n>>
LitStr == <<"str">>
Var(x) == <<"name", x>>
Add(l, r) == <<"add", l, r>>
Div(l, r) == <<"div", l, r>>
IntOf(x) == <<"int", x>>
Dot(code, name) == <<"dot", code, name>>
Empty == <<"empty">>
\* An account expression (as bal[70]) for which the ledger gives value v.
Acc(v) == <<"acc", v>>

\* AEP.has_account_var: the expression holds an account expression.
RECURSIVE has_account_var(_)
has_account_var(e) ==
    CASE e[1] = "acc" -> TRUE
      [] e[1] \in {"add", "div"} -> has_account_var(e[2]) \/ has_account_var(e[3])
      [] e[1] = "int" -> has_account_var(e[2])
      [] OTHER -> FALSE

\* aep.replace_expr: every account expression replaced by its value, by the
\* name AccountingNone when the ledger has no data for it.
RECURSIVE replace_expr(_)
replace_expr(e) ==
    CASE e[1] = "acc" ->
            IF e[2].t = "num" THEN <<"num", e[2].n>> ELSE <<"name", "AccountingNone">>
      [] e[1] \in {"add", "div"} -> <<e[1], replace_expr(e[2]), replace_expr(e[3])>>
      [] e[1] = "int" -> <<e[1], replace_expr(e[2])>>
      [] OTHER -> e

\* The names an expression looks up, and whether it holds a '.'.
RECURSIVE Refs(_)
Refs(e) ==
    CASE e[1] = "name" -> {e[2]}
      [] e[1] \in {"add", "div"} -> Refs(e[2]) \cup Refs(e[3])
      [] e[1] = "int" -> Refs(e[2])
      [] OTHER -> {}

RECURSIVE HasDot(_)
HasDot(e) ==
    CASE e[1] = "dot" -> TRUE
      [] e[1] \in {"add", "div"} -> HasDot(e[2]) \/ HasDot(e[3])
      [] e[1] = "int" -> HasDot(e[2])
      [] OTHER -> FALSE

\* _sub_expressions: the pieces of an expression that hold a '.', in the
\* order of the text.
RECURSIVE sub_expressions(_)
sub_expressions(e) ==
    CASE e[1] = "dot" -> <<e>>
      [] e[1] \in {"add", "div"} -> sub_expressions(e[2]) \o sub_expressions(e[3])
      [] e[1] = "int" -> sub_expressions(e[2])
      [] OTHER -> <<>>

\* The names of one character: ([a-zA-Z]\w+) of line 511 matches none of them.
OneChar == {"a", "b", "c", "d", "e", "f", "q"}

\* Line 510-512: every <word>.<word> of the expression, each word of two
\* characters or more, becomes <word>_<word>.
RECURSIVE dots_replaced(_)
dots_replaced(e) ==
    CASE e[1] = "dot" ->
            IF e[2] \notin OneChar /\ e[3] \notin OneChar
            THEN <<"name", e[2] \o "_" \o e[3]>> ELSE e
      [] e[1] \in {"add", "div"} -> <<e[1], dots_replaced(e[2]), dots_replaced(e[3])>>
      [] e[1] = "int" -> <<e[1], dots_replaced(e[2])>>
      [] OTHER -> e

\* ------------------------------------------------ evaluation of expressions
\* Python's + on two values.
PyAdd(x, y) ==
    CASE x.t = "num" /\ y.t = "num" -> Ok(Num(x.n + y.n))
      [] x.t = "str" /\ y.t = "str" -> Ok(Str)
      [] OTHER -> Raise("TypeError")

\* Python 2's / on two values (integers: floor division).
PyDiv(x, y) ==
    CASE x.t = "num" /\ y.t = "num" ->
            IF y.n = 0 THEN Raise("ZeroDivisionError") ELSE Ok(Num(x.n \div y.n))
      [] OTHER -> Raise("TypeError")

\* Python's int() on a value: int('s') is a ValueError.
PyInt(x) ==
    CASE x.t = "num" -> Ok(x)
      [] x.t = "str" -> Raise("ValueError")
      [] OTHER -> Raise("TypeError")

\* safe_eval(expression, localdict): the expression evaluated against the
\* bindings of localdict; an exception surfaces with the class Python gives it.
RECURSIVE safe_eval(_, _)
safe_eval(e, ld) ==
    CASE e[1] = "num" -> Ok(Num(e[2]))
      [] e[1] = "str" -> Ok(Str)
      [] e[1] = "name" ->
            IF e[2] \in DOMAIN ld THEN Ok(ld[e[2]]) ELSE Raise("NameError")
      [] e[1] \in {"add", "div"} ->
            LET l == safe_eval(e[2], ld) IN
            IF l.exc # "none" THEN l
            ELSE LET r == safe_eval(e[3], ld) IN
                 IF r.exc # "none" THEN r
                 ELSE IF e[1] = "add" THEN PyAdd(l.v, r.v) ELSE PyDiv(l.v, r.v)
      [] e[1] = "int" ->
            LET x == safe_eval(e[2], ld) IN
            IF x.exc # "none" THEN x ELSE PyInt(x.v)
      [] e[1] = "dot" ->
            IF e[2] \notin DOMAIN ld THEN Raise("NameError")
            ELSE IF ld[e[2]].t = "AutoStruct" THEN Ok(Num(ld[e[2]].n))
            ELSE Raise("AttributeError")
      [] OTHER -> Raise("SyntaxError")

\* ---------------------------------------------------------------- rendering
Text(k, n) ==
    [k |-> k, n |-> n, plus |-> FALSE, dp |-> 0, pre |-> "", lab |-> "", suf |-> ""]
ERR == Text("#ERR", 0)
DIV0 == Text("#DIV/0", 0)
EmptyString == Text("", 0)

\* value / float(divider or 1) as the pair <<multiplier, divisor>>.
DividerRatio(divider) ==
    CASE divider = "1e-6" -> <<1000000, 1>>
      [] divider = "1e-3" -> <<1000, 1>>
      [] divider = "1e3" -> <<1, 1000>>
      [] divider = "1e6" -> <<1, 1000000>>
      [] divider = "0.01" -> <<100, 1>>
      [] OTHER -> <<1, 1>>

\* _get_selection_label on the divider selection, '1' shown as ''.
divider_label(divider) ==
    CASE divider = "1e-6" -> "u"
      [] divider = "1e-3" -> "m"
      [] divider = "1e3" -> "k"
      [] divider = "1e6" -> "M"
      [] OTHER -> ""

RECURSIVE Pow10(_)
Pow10(k) == IF k <= 0 THEN 1 ELSE 10 * Pow10(k - 1)

Abs(x) == IF x < 0 THEN -x ELSE x

\* Python 2's round at a decimal place: a / b to the nearest integer, halves
\* away from zero.
RoundHalfAway(a, b) ==
    LET q == (2 * Abs(a) + b) \div (2 * b) IN IF a < 0 THEN -q ELSE q

\* A number is n, or n / d when it has a denominator (d > 0).
Den(value) == IF "d" \in DOMAIN value THEN value.d ELSE 1

\* The format %<sign>.<dp>f of line 216 on the number n / 10^dp: with sign
\* '+' a number that is not negative is shown with a '+', zero included.
PlusShown(sign, n) == sign = "+" /\ n >= 0

\* MisReportKpi._render_num: the number shown is n / 10^dp.
render_num(value, divider, dp, prefix, suffix, sign) ==
    IF value.t # "num" THEN [exc |-> "TypeError", r |-> ERR]
    ELSE LET ratio == DividerRatio(divider)
             n == RoundHalfAway(value.n * ratio[1] * Pow10(dp),
                                ratio[2] * Den(value))
         IN  [exc |-> "none",
              r |-> [k |-> "num", n |-> n, plus |-> PlusShown(sign, n),
                     dp |-> dp, pre |-> prefix,
                     lab |-> divider_label(divider), suf |-> suffix]]

\* MisReportKpi.render.
render(kpi, value) ==
    IF value.t \in {"None", "AccountingNone"} THEN [exc |-> "none", r |-> EmptyString]
    ELSE IF kpi.type = "num"
         THEN render_num(value, kpi.divider, kpi.dp, kpi.prefix, kpi.suffix, "-")
    ELSE IF kpi.type = "pct"
         THEN render_num(value, "0.01", kpi.dp, "", "%", "-")
    ELSE [exc |-> "none", r |-> Text("text", value.n)]

\* --------------------------------------------------------------- comparison
\* The number n / d (d > 0): what a division by a float gives.
Q(n, d) == [t |-> "num", n |-> n, d |-> d]

\* accounting_none.py: what an arithmetic operation with AccountingNone as an
\* operand gives, and the truth value of AccountingNone. The sentinel for
\* "no data" propagates as absent.
AccountingNoneResult == AccountingNone
AccountingNoneTruth == FALSE

\* bool(x).
Truth(x) ==
    CASE x.t = "num" -> x.n # 0
      [] x.t = "AccountingNone" -> AccountingNoneTruth
      [] OTHER -> x.t # "None"

\* x - y.
PySub(x, y) ==
    CASE x.t = "num" /\ y.t = "num" ->
            Ok(Q(x.n * Den(y) - y.n * Den(x), Den(x) * Den(y)))
      [] x.t = "AccountingNone" \/ y.t = "AccountingNone" -> Ok(AccountingNoneResult)
      [] OTHER -> Raise("TypeError")

\* x / float(k), k a positive integer, for a number x.
PyDivFloat(x, k) == Q(x.n, Den(x) * k)

\* x / abs(y), for a number y that is not zero.
PyDivAbs(x, y) ==
    IF x.t = "num" THEN Q(x.n * Den(y), Den(x) * Abs(y.n)) ELSE AccountingNoneResult

\* x * 100, for a number x.
Times100(x) == Q(x.n * 100, Den(x))

\* round(x, dp) for a number x, in units of 10^-dp.
PyRound(x, dp) == RoundHalfAway(x.n * Pow10(dp), Den(x))

\* Lines 171-174: None is taken as AccountingNone.
NoneKept(value) == value
NoneAsAccountingNone(value) == IF value = PyNone THEN AccountingNone ELSE value

\* Lines 184-187: a value that is not zero is divided by its factor.
Normalized(value, average_value) ==
    IF Truth(value) /\ average_value # 0
    THEN PyDivFloat(value, average_value) ELSE value

\* return '' (line 205).
NoComparison == [exc |-> "none", r |-> EmptyString]

\* Lines 177-182, 190-195: a difference is shown when it is not zero and
\* does not round to zero at dp decimals; it is shown divided by divider.
DifferenceShown(value, base_value, divider, dp, prefix, suffix) ==
    LET delta == PySub(value, base_value) IN
    IF delta.exc # "none" THEN [exc |-> delta.exc, r |-> ERR]
    ELSE IF ~Truth(delta.v) THEN NoComparison
    ELSE IF PyRound(delta.v, dp) = 0 THEN NoComparison
    ELSE render_num(delta.v, divider, dp, prefix, suffix, "+")

\* Lines 197-204: the change relative to a base that is not zero and does
\* not round to zero.
ChangeShown(value, base_value, dp) ==
    IF ~Truth(base_value) THEN NoComparison
    ELSE IF PyRound(base_value, dp) = 0 THEN NoComparison
    ELSE LET diff == PySub(value, base_value) IN
         IF diff.exc # "none" THEN [exc |-> diff.exc, r |-> ERR]
         ELSE LET delta == PyDivAbs(diff.v, base_value) IN
              IF ~Truth(delta) THEN NoComparison
              ELSE IF PyRound(Times100(delta), dp) = 0 THEN NoComparison
              ELSE render_num(delta, "0.01", dp, "", "%", "+")

\* MisReportKpi.render_comparison.
render_comparison(kpi, value, base_value, average_value, average_base_value) ==
    LET v == NoneAsAccountingNone(value)
        b == NoneAsAccountingNone(base_value)
    IN  IF kpi.type = "pct"
        THEN DifferenceShown(v, b, "0.01", kpi.dp, "", "pp")
        ELSE IF kpi.type = "num"
        THEN LET nv == Normalized(v, average_value)
                 nb == Normalized(b, average_base_value)
             IN  IF kpi.compare_method = "diff"
                 THEN DifferenceShown(nv, nb, kpi.divider, kpi.dp, kpi.prefix, kpi.suffix)
                 ELSE IF kpi.compare_method = "pct"
                 THEN ChangeShown(nv, nb, kpi.dp)
                 ELSE NoComparison
        ELSE NoComparison

\* ------------------------------------------------------------------- state
VARIABLES
    reports,                      \* the report templates, by code
    period_ids,                   \* the periods of the report instance
    \* an activation of MisReportInstance._compute
    report_id,                    \* its report_id argument (a code)
    period_pos,                   \* the place in period_ids of the loop of line 1190
    kpi_values_by_period_ids,     \* the results of the periods, by period id
    \* the activation of MisReport._compute it runs for a period
    self,                         \* the code of the template
    period_id,                    \* its period_id argument
    compute_queue,                \* the KPIs (ids) of the pass
    recompute_queue,              \* the KPIs to evaluate again
    pos,                          \* the place in compute_queue of the for loop
    localdict,                    \* the evaluation scope
    res,                          \* the result, keyed on kpi.name
    inherit_subreport_vals,       \* the sub-reports evaluated, by code
    \* the KPI whose sub-expressions are being resolved
    kpi_eval_expression,          \* its expression, as rewritten so far
    sub_pos,                      \* the place in sub_expressions
    inherit_active_subreport_ids, \* the sub-reports it resolved
    pc,                           \* where control is
    stack,                        \* the activations waiting for a sub-report
    result,                       \* what the outermost activation returned
    passes,                       \* history: passes of the while loop begun
    trace,                        \* history: one entry per evaluation of a KPI
    pass_log,                     \* history: one entry per finished pass
    sub_calls,                    \* history: evaluations asked of each sub-report
    computed,                     \* history: the runs of MisReport._compute
    calls,                        \* history: the calls to the compiler and the queries
    args,                         \* a method called by itself: its arguments
    ret                           \* ... and what it returned

vars == <<reports, period_ids, report_id, period_pos, kpi_values_by_period_ids,
          self, period_id, compute_queue, recompute_queue, pos, localdict, res,
          inherit_subreport_vals, kpi_eval_expression, sub_pos,
          inherit_active_subreport_ids, pc, stack, result,
          passes, trace, pass_log, sub_calls, computed, calls, args, ret>>

kpi_ids == reports[self].kpi_ids

Range(s) == {s[i] : i \in 1..Len(s)}

\* list.index: the place of the first element equal to x, counted from 0.
RECURSIVE index(_, _)
index(xs, x) == IF Head(xs) = x THEN 0 ELSE 1 + index(Tail(xs), x)
EmptyDict == [x \in {} |-> 0]
NoReport == ""

\* The activation in progress: what SubCall puts on the stack, and what the
\* steps below transform.
Frame ==
    [report_id |-> report_id, period_pos |-> period_pos,
     kpi_values_by_period_ids |-> kpi_values_by_period_ids,
     self |-> self, period_id |-> period_id,
     compute_queue |-> compute_queue, recompute_queue |-> recompute_queue,
     pos |-> pos, localdict |-> localdict, res |-> res,
     inherit_subreport_vals |-> inherit_subreport_vals,
     kpi_eval_expression |-> kpi_eval_expression, sub_pos |-> sub_pos,
     inherit_active_subreport_ids |-> inherit_active_subreport_ids,
     passes |-> passes, trace |-> trace, pass_log |-> pass_log,
     sub_calls |-> sub_calls]

\* The activation in progress becomes f.
Resume(f) ==
    /\ report_id' = f.report_id
    /\ period_pos' = f.period_pos
    /\ kpi_values_by_period_ids' = f.kpi_values_by_period_ids
    /\ self' = f.self
    /\ period_id' = f.period_id
    /\ compute_queue' = f.compute_queue
    /\ recompute_queue' = f.recompute_queue
    /\ pos' = f.pos
    /\ localdict' = f.localdict
    /\ res' = f.res
    /\ inherit_subreport_vals' = f.inherit_subreport_vals
    /\ kpi_eval_expression' = f.kpi_eval_expression
    /\ sub_pos' = f.sub_pos
    /\ inherit_active_subreport_ids' = f.inherit_active_subreport_ids
    /\ passes' = f.passes
    /\ trace' = f.trace
    /\ pass_log' = f.pass_log
    /\ sub_calls' = f.sub_calls

\* A KPI of a template, its fields as the pool entry v gives them.
MisReportKpi(id, name, v) ==
    [id |-> id, name |-> name, description |-> "D_" \o name,
     expression |-> v.expression, css_style |-> v.css_style, type |-> v.type,
     divider |-> "1", dp |-> 0, prefix |-> "", suffix |-> "",
     invisible |-> v.invisible, column_title |-> v.column_title,
     column_break |-> v.column_break, compare_method |-> "pct", default_css_style |-> ""]

K(expression, css_style, type) ==
    [expression |-> expression, css_style |-> css_style, type |-> type,
     invisible |-> FALSE, column_title |-> FALSE, column_break |-> FALSE]
Hidden(v) == [v EXCEPT !.invisible = TRUE]
Title(v) == [v EXCEPT !.column_title = TRUE]
Break(v) == [v EXCEPT !.column_break = TRUE]

\* A period of a report instance: whether its dates could be computed, the
\* periods it is compared with and its factor of normalisation. Period i of
\* an instance is made from period i of the template (line 1095).
MisReportInstancePeriod(id, valid, comparison_column_ids, normalize_factor) ==
    [id |-> id, valid |-> valid,
     comparison_column_ids |-> comparison_column_ids,
     normalize_factor |-> normalize_factor,
     template_period_id |-> id]

\* A template.
MisReport(kpis) ==
    [kpi_ids |-> kpis, query_ids |-> {"q"}, matrix |-> FALSE,
     manual_position |-> FALSE, position_ids |-> <<>>]

\* The expressions, style expressions and types the KPIs of a template are
\* drawn from.
KpiPool == <<
    K(Lit(2), Empty, "num"),
    K(Lit(0), Empty, "num"),
    K(Add(Var("b"), Lit(1)), LitStr, "num"),
    K(Var("a"), Empty, "num"),
    K(Add(Var("c"), Lit(1)), Empty, "num"),
    K(Div(Lit(1), Var("a")), Empty, "num"),
    K(Add(Div(Lit(1), Lit(0)), Var("b")), Empty, "num"),
    K(Add(Lit(1), LitStr), Empty, "num"),
    K(IntOf(LitStr), Empty, "num"),
    K(Var("zz"), Empty, "num"),
    K(LitStr, Empty, "str"),
    K(LitStr, Empty, "num"),
    K(Lit(2), Var("zz"), "num"),
    K(Add(Var("d"), Lit(1)), Div(Lit(1), Lit(0)), "pct"),
    K(Var("AccountingNone"), Empty, "num")
>>

\* localdict as _compute seeds it (lines 454-465): the builtins and the
\* results of the template's queries.
SeedNames == {"registry", "sum", "min", "max", "len", "avg"}
Seed(report) ==
    [n \in SeedNames \cup {"AccountingNone"} \cup report.query_ids |->
        IF n = "AccountingNone" THEN AccountingNone
        ELSE IF n = "registry" THEN Registry
        ELSE IF n \in SeedNames THEN Builtin ELSE AutoStruct]

Bind(ld, name, v) ==
    [n \in DOMAIN ld \cup {name} |-> IF n = name THEN v ELSE ld[n]]

\* ------------------------------------------------------ MisReport._compute
\* Line 573: the exceptions that put the KPI in the retry queue.
RetriedNever(exc) == FALSE
RetriedDivisionToo(exc) == exc \in {"NameError", "ValueError", "ZeroDivisionError"}
RetriedAnyFault(exc) == exc \notin {"none", "ZeroDivisionError"}
RetriedRecursionToo(exc) == exc \in {"NameError", "ValueError", "RuntimeError"}
Retried(exc) == exc \in {"NameError", "ValueError"}

\* Lines 571, 576, 580: the marker an exception leaves as rendered value.
Marker(exc) == IF exc = "ZeroDivisionError" THEN DIV0 ELSE ERR

\* Line 567 is reached, and binds the KPI's name, when line 566 raised nothing.
BoundAlways(exc) == TRUE
BoundOnDivision(exc) == exc \in {"none", "ZeroDivisionError"}
Bound(exc) == exc = "none"

\* The try statement of lines 483-583, the expression evaluated to r: what
\* the except clauses (or the else clause) leave. raised: the exception
\* kpi.render lets out of _compute (the else clause is outside the try).
Handler(kpi, r) ==
    IF r.exc = "none"
    THEN LET rr == render(kpi, r.v) IN
         [exc |-> "none", kpi_val |-> r.v, kpi_val_rendered |-> rr.r,
          retry |-> FALSE, bound |-> Bound(r.exc), raised |-> rr.exc]
    ELSE [exc |-> r.exc, kpi_val |-> PyNone, kpi_val_rendered |-> Marker(r.exc),
          retry |-> Retried(r.exc), bound |-> Bound(r.exc), raised |-> "none"]

\* Lines 585-592: the style expression, any exception swallowed.
kpi_style(kpi, ld) ==
    IF kpi.css_style = Empty THEN PyNone
    ELSE LET s == safe_eval(kpi.css_style, ld) IN
         IF s.exc = "none" THEN s.v ELSE PyNone

\* Lines 598-614: the entry of res.
DrilldownDespiteSubReports(active, kpi_val, expression) ==
    kpi_val # PyNone /\ has_account_var(expression)
\* Lines 594-596.
Drilldown(active, kpi_val, expression) ==
    active = {} /\ kpi_val # PyNone /\ has_account_var(expression)

ResEntryStyleInTry(kpi, o, ld, pid, active) ==
    LET failed == kpi.css_style # Empty /\ safe_eval(kpi.css_style, ld).exc # "none" IN
    [val |-> IF failed \/ o.kpi_val = AccountingNone THEN PyNone ELSE o.kpi_val,
     val_r |-> IF failed THEN ERR ELSE o.kpi_val_rendered,
     val_c |-> o.exc,
     style |-> kpi_style(kpi, ld),
     kpi_id |-> kpi.id,
     period_id |-> pid,
     drilldown |-> Drilldown(active, o.kpi_val, kpi.expression),
     sub_report_ids |-> active]
ResEntry(kpi, o, ld, pid, active) ==
    [val |-> IF o.kpi_val = AccountingNone THEN PyNone ELSE o.kpi_val,
     val_r |-> o.kpi_val_rendered,
     val_c |-> o.exc,
     style |-> kpi_style(kpi, ld),
     kpi_id |-> kpi.id,
     period_id |-> pid,
     drilldown |-> Drilldown(active, o.kpi_val, kpi.expression),
     sub_report_ids |-> active]

\* The KPI the for loop of line 480 is at, in activation f.
KpiAt(f) == reports[f.self].kpi_ids[f.compute_queue[f.pos]]

\* The rest of a turn of the for loop of line 480 in activation f, once the
\* try block gave r for the KPI: lines 566-614. When kpi.render raises,
\* nothing of the turn is kept but the binding of line 567.
Evaluated(f, r) ==
    LET kpi == KpiAt(f)
        o == Handler(kpi, r)
        ld == IF o.bound THEN Bind(f.localdict, kpi.name, o.kpi_val) ELSE f.localdict
        ev == [pass |-> f.passes, kpi |-> kpi.id, exc |-> o.exc, raised |-> o.raised]
    IN  IF o.raised # "none"
        THEN [f EXCEPT !.localdict = ld, !.trace = Append(@, ev)]
        ELSE [f EXCEPT !.localdict = ld,
                       !.recompute_queue =
                            IF o.retry /\ kpi.id \notin Range(@)
                            THEN Append(@, kpi.id) ELSE @,
                       !.trace = Append(@, ev),
                       !.res = Bind(@, kpi.name, ResEntry(kpi, o, ld, f.period_id,
                                                     f.inherit_active_subreport_ids)),
                       !.pos = @ + 1]

\* Where control is after a turn of the for loop.
AfterTurn(f) ==
    IF f.trace[Len(f.trace)].raised # "none" THEN "raised" ELSE "loop"

\* A turn of the for loop for a KPI whose expression holds no '.'.
EvalKpi ==
    /\ pc = "loop"
    /\ pos <= Len(compute_queue)
    /\ ~HasDot(KpiAt(Frame).expression)
    /\ \E g \in {Evaluated([Frame EXCEPT !.inherit_active_subreport_ids = {}],
                      safe_eval(replace_expr(KpiAt(Frame).expression), localdict))} :
            Resume(g) /\ pc' = AfterTurn(g)
    /\ UNCHANGED <<calls, args, ret, reports, period_ids, stack, result, computed>>

\* Lines 616-626: how the while loop goes on after a pass.
AfterPassNoProgressRule(rq, cq) ==
    IF Len(rq) = 0 THEN "nothing to recompute" ELSE "try again"
AfterPass(rq, cq) ==
    IF Len(rq) = 0 THEN "nothing to recompute"
    ELSE IF Len(rq) = Len(cq) THEN "could not compute anything"
    ELSE "try again"

EndPass ==
    /\ pc = "loop"
    /\ pos > Len(compute_queue)
    /\ LET how == AfterPass(recompute_queue, compute_queue)
           logged == [Frame EXCEPT !.pass_log =
                        Append(@, [compute |-> compute_queue,
                                   retry |-> recompute_queue, how |-> how])]
       IN  IF how = "try again"
           THEN /\ Resume([logged EXCEPT !.compute_queue = recompute_queue,
                                         !.recompute_queue = <<>>,
                                         !.pos = 1,
                                         !.passes = @ + 1])
                /\ pc' = "loop"
           ELSE /\ Resume(logged)
                /\ pc' = "done"
    /\ UNCHANGED <<calls, args, ret, reports, period_ids, stack, result, computed>>

\* The calls to the ledger expression compiler and to the query fetcher.
\* Lines 1178, 328-334: the compiler built for a template, its expressions
\* parsed and the parsing finished.
Prepared(code) == <<[op |-> "_prepare_aep", report |-> code, period |-> 0]>>

\* (the compiler built anew for every period)
FetchedAfterPreparing(code, pid) ==
    <<[op |-> "_prepare_aep", report |-> code, period |-> 0],
      [op |-> "_fetch_queries", report |-> code, period |-> pid],
      [op |-> "do_queries", report |-> code, period |-> pid]>>
\* Lines 464-473: the queries fetched and the balances computed for a period.
Fetched(code, pid) ==
    <<[op |-> "_fetch_queries", report |-> code, period |-> pid],
      [op |-> "do_queries", report |-> code, period |-> pid]>>

\* MisReport._compute begun on template code for period pid, at line 479:
\* the scope seeded, the compute queue all the KPIs in order.
Begun(f, code, pid) ==
    [f EXCEPT !.self = code,
              !.period_id = pid,
              !.compute_queue = [i \in 1..Len(reports[code].kpi_ids) |-> i],
              !.recompute_queue = <<>>,
              !.pos = 1,
              !.localdict = Seed(reports[code]),
              !.res = EmptyDict,
              !.inherit_subreport_vals = EmptyDict,
              !.kpi_eval_expression = Empty,
              !.sub_pos = 0,
              !.inherit_active_subreport_ids = {},
              !.passes = 1,
              !.trace = <<>>,
              !.pass_log = <<>>,
              !.sub_calls = EmptyDict]

\* No activation at all.
Idle ==
    [report_id |-> NoReport, period_pos |-> 0,
     kpi_values_by_period_ids |-> EmptyDict,
     self |-> "main", period_id |-> 0,
     compute_queue |-> <<>>, recompute_queue |-> <<>>,
     pos |-> 1, localdict |-> EmptyDict, res |-> EmptyDict,
     inherit_subreport_vals |-> EmptyDict,
     kpi_eval_expression |-> Empty, sub_pos |-> 0,
     inherit_active_subreport_ids |-> {},
     passes |-> 0, trace |-> <<>>, pass_log |-> <<>>,
     sub_calls |-> EmptyDict]

\* A call of MisReport._compute on a template of at most MaxKpis KPIs, for
\* period 1. The KPIs are named in the order of Names or in the reverse
\* order.
Init ==
    \E n \in 0..MaxKpis :
      \E f \in [1..n -> 1..Len(KpiPool)], rev \in BOOLEAN :
        /\ reports = [c \in {"main"} |->
              MisReport([i \in 1..n |->
                    MisReportKpi(i, Names[IF rev THEN n + 1 - i ELSE i], KpiPool[f[i]])])]
        /\ period_ids = <<MisReportInstancePeriod(1, TRUE, <<>>, 1)>>
        /\ report_id = Idle.report_id
        /\ period_pos = Idle.period_pos
        /\ kpi_values_by_period_ids = Idle.kpi_values_by_period_ids
        /\ self = "main"
        /\ period_id = 1
        /\ compute_queue = [i \in 1..n |-> i]
        /\ recompute_queue = <<>>
        /\ pos = 1
        /\ localdict = Seed(reports["main"])
        /\ res = EmptyDict
        /\ inherit_subreport_vals = EmptyDict
        /\ kpi_eval_expression = Empty
        /\ sub_pos = 0
        /\ inherit_active_subreport_ids = {}
        /\ pc = "loop"
        /\ stack = <<>>
        /\ result = <<>>
        /\ passes = 1
        /\ trace = <<>>
        /\ pass_log = <<>>
        /\ sub_calls = EmptyDict
        /\ computed = <<[report |-> "main", period |-> 1, depth |-> 0]>>
        /\ calls = Fetched("main", 1)
        /\ args = <<>>
        /\ ret = <<>>

Next == EvalKpi \/ EndPass

Spec == Init /\ [][Next]_vars

\* --------------------------------------------- any names for the KPIs
\* MisReportKpi._check_name (lines 115-117) wants a name to be an identifier
\* and nothing constrains it to be the only one of its template: a call of
\* MisReport._compute on a template whose KPIs take any of the first
\* MaxKpis names, two of them the same one or not.
NamesPool == <<
    K(Lit(2), Empty, "num"),
    K(Add(Var("b"), Lit(1)), Empty, "num"),
    K(Add(Var("c"), Lit(1)), Empty, "num"),
    K(Div(Lit(1), Lit(0)), Empty, "num")
>>

InitNames ==
    \E n \in 0..MaxKpis :
      \E f \in [1..n -> 1..Len(NamesPool)], nm \in [1..n -> 1..MaxKpis] :
        /\ reports = [c \in {"main"} |->
              MisReport([i \in 1..n |->
                    MisReportKpi(i, Names[nm[i]], NamesPool[f[i]])])]
        /\ period_ids = <<MisReportInstancePeriod(1, TRUE, <<>>, 1)>>
        /\ report_id = Idle.report_id
        /\ period_pos = Idle.period_pos
        /\ kpi_values_by_period_ids = Idle.kpi_values_by_period_ids
        /\ self = "main"
        /\ period_id = 1
        /\ compute_queue = [i \in 1..n |-> i]
        /\ recompute_queue = <<>>
        /\ pos = 1
        /\ localdict = Seed(reports["main"])
        /\ res = EmptyDict
        /\ inherit_subreport_vals = EmptyDict
        /\ kpi_eval_expression = Empty
        /\ sub_pos = 0
        /\ inherit_active_subreport_ids = {}
        /\ pc = "loop"
        /\ stack = <<>>
        /\ result = <<>>
        /\ passes = 1
        /\ trace = <<>>
        /\ pass_log = <<>>
        /\ sub_calls = EmptyDict
        /\ computed = <<[report |-> "main", period |-> 1, depth |-> 0]>>
        /\ calls = Fetched("main", 1)
        /\ args = <<>>
        /\ ret = <<>>

SpecNames == InitNames /\ [][Next]_vars

\* ------------------------------------------- MisReportInstance._compute
\* The templates here have matrix and manual_position unset: lines 1285-1365
\* do nothing.

ValidPeriods == SelectSeq(period_ids, LAMBDA p : p.valid)

RECURSIVE Flat(_)
Flat(ss) == IF ss = <<>> THEN <<>> ELSE Head(ss) \o Flat(Tail(ss))

\* Lines 1253-1256: the periods a period is compared with that have KPI
\* values, in the order of comparison_column_ids.
Compared(period, kv) ==
    SelectSeq(period.comparison_column_ids,
              LAMBDA compare_col :
                  IF compare_col.id \in DOMAIN kv
                  THEN kv[compare_col.id] # EmptyDict ELSE FALSE)

\* Lines 1206-1210: the column a KPI's row is put in.
Column(kpis, i) == Cardinality({j \in 1..i : kpis[j].column_break})

\* Lines 1231-1246, 1257-1261: the header columns, one per valid period and
\* after it one per comparison; a period is named by its id, a comparison
\* ('%s vs %s') by the ids of its two periods.
HeaderCols(kv) ==
    Flat([j \in 1..Len(ValidPeriods) |->
            LET period == ValidPeriods[j]
                compared == Compared(period, kv)
            IN  <<[name |-> <<period.id>>, date |-> "header_date"]>>
                \o [c \in 1..Len(compared) |->
                       [name |-> <<period.id, compared[c].id>>, date |-> ""]]])

\* Lines 1197-1214: the header of a column.
Header(kpis, c, kv) ==
    LET breaks == SelectSeq(kpis, LAMBDA k : k.column_break) IN
    [kpi_name |-> IF c > 0 /\ breaks[c].column_title THEN breaks[c].description ELSE "",
     cols |-> HeaderCols(kv)]

\* Lines 1216-1271: the row of a KPI, for each valid period its cell and
\* after it the cells of the comparisons.
RowOwnCellsOnly(kpis, i, kv) ==
    [kpi_name |-> kpis[i].description,
     kpi_unique_name |-> kpis[i].name,
     cols |-> [j \in 1..Len(ValidPeriods) |-> kv[ValidPeriods[j].id][kpis[i].name]],
     default_style |-> kpis[i].default_css_style,
     column |-> Column(kpis, i),
     invisible |-> kpis[i].column_title \/ kpis[i].invisible]
Row(kpis, i, kv) ==
    [kpi_name |-> kpis[i].description,
     kpi_unique_name |-> kpis[i].name,
     cols |-> Flat([j \in 1..Len(ValidPeriods) |->
                LET period == ValidPeriods[j]
                    compared == Compared(period, kv)
                    kpi_values == kv[period.id]
                IN  <<kpi_values[kpis[i].name]>>
                    \o [c \in 1..Len(compared) |->
                           [val_r |-> render_comparison(
                                kpis[i],
                                kpi_values[kpis[i].name].val,
                                kv[compared[c].id][kpis[i].name].val,
                                period.normalize_factor,
                                compared[c].normalize_factor)]]]),
     default_style |-> kpis[i].default_css_style,
     column |-> Column(kpis, i),
     invisible |-> kpis[i].column_title \/ kpis[i].invisible]

\* Lines 1196-1283: the grid, a group per column that holds a row, the rows
\* of a group the visible ones.
AssembleGrid(code, kv) ==
    LET kpis == reports[code].kpi_ids
        content == [i \in 1..Len(kpis) |-> Row(kpis, i, kv)]
        columns == {content[i].column : i \in 1..Len(content)}
        upto == [c \in 1..(Len(kpis) + 1) |-> c - 1]
    IN  [g \in 1..Cardinality(columns) |->
            LET column == SelectSeq(upto, LAMBDA c : c \in columns)[g] IN
            [header |-> <<Header(kpis, column, kv)>>,
             content |-> SelectSeq(content,
                            LAMBDA row : row.column = column /\ ~row.invisible)]]

\* Lines 1285-1299: a group of a matrix template, its header columns made
\* the rows and its rows the header columns. The default style is read from
\* the first row for every line: IndexError when the group has lines and no
\* row.
Transposed(group) ==
    LET lines == group.header[1].cols
        content == group.content
    IN  IF lines # <<>> /\ content = <<>> THEN Raise("IndexError")
        ELSE Ok([header |-> <<[group.header[1] EXCEPT !.cols =
                        [r \in 1..Len(content) |->
                            [name |-> content[r].kpi_name, date |-> ""]]]>>,
                 content |->
                    [l \in 1..Len(lines) |->
                        [kpi_name |-> lines[l].name,
                         cols |-> [r \in 1..Len(content) |->
                                      content[r].cols[index(lines, lines[l]) + 1]],
                         default_style |-> content[1].default_style]]])

\* Line 1286: the groups of a matrix template transposed one after the
\* other, or what the first failing one raises.
TransposedGrid(grid) ==
    LET failed == {g \in 1..Len(grid) : Transposed(grid[g]).exc # "none"} IN
    IF failed # {}
    THEN Raise(Transposed(grid[CHOOSE g \in failed : \A h \in failed : g <= h]).exc)
    ELSE Ok([g \in 1..Len(grid) |-> Transposed(grid[g]).v])

\* A position entry of a manual-position template; kpi_id, period_id 0 and
\* name "" when not set.
MisReportPosition(line, collumn, kpi, period, name) ==
    [line |-> line, collumn |-> collumn, kpi_id |-> kpi,
     period_id |-> period, name |-> name]

ColumnWithoutName == "coluna s/ nome"
LineWithoutName == "linha s/ nome"

\* max() of a list of integers that is not empty.
PyMax(S) == CHOOSE x \in S : \A y \in S : y <= x

\* Lines 1330-1343: the cells of the grid a position entry matches, in the
\* order of the loops over groups, rows and cells. A comparison cell has
\* neither kpi_id nor period_id.
MatchingCells(grid, position) ==
    LET cells == Flat([g \in 1..Len(grid) |->
                     Flat([r \in 1..Len(grid[g].content) |->
                              grid[g].content[r].cols])])
        instance_period(cell) ==
            CHOOSE p \in Range(period_ids) : p.id = cell.period_id
        kpi_compare(cell) ==
            IF "kpi_id" \in DOMAIN cell THEN cell.kpi_id = position.kpi_id
            ELSE FALSE
        period_compare(cell) ==
            IF "period_id" \in DOMAIN cell
            THEN instance_period(cell).template_period_id = position.period_id
            ELSE position.period_id = 0
    IN  SelectSeq(cells, LAMBDA cell :
            IF kpi_compare(cell) THEN period_compare(cell) ELSE FALSE)

\* Lines 1301-1365: the grid of a manual-position template. row_list is
\* built with one list per column, each of one place per line (lines
\* 1307-1308), and then indexed [line][collumn] throughout: a place is there
\* when its first index is at most collumn_size and its second at most
\* row_size, and IndexError is raised for any other. max() of no position
\* raises ValueError.
Positioned(grid, position_ids) ==
    LET positions == Range(position_ids)
        collumn_size == PyMax({x.collumn : x \in positions})
        row_size == PyMax({x.line : x \in positions})
        there(a, b) == a <= collumn_size /\ b <= row_size
        header_positions ==
            SelectSeq(position_ids, LAMBDA x :
                x.line = 0 /\ x.collumn > 0 /\ x.collumn <= collumn_size)
        line_positions ==
            SelectSeq(position_ids, LAMBDA x :
                x.collumn = 0 /\ x.line > 0 /\ x.line <= row_size)
        cell_positions ==
            SelectSeq(position_ids, LAMBDA x :
                IF x.line > 0 /\ x.collumn > 0
                THEN MatchingCells(grid, x) # <<>> ELSE FALSE)
        named == header_positions \o line_positions
        written == {<<x.line, x.collumn>> : x \in Range(named) \cup Range(cell_positions)}
        read == IF grid = <<>> THEN {}
                ELSE (0..row_size) \X (0..collumn_size) \ {<<0, 0>>}
        name_at(a, b) ==
            LET of == {i \in 1..Len(named) :
                          named[i].line = a /\ named[i].collumn = b}
            IN  IF of = {} THEN ""
                ELSE named[CHOOSE i \in of : \A j \in of : j <= i].name
        cell_at(a, b) ==
            LET of == {i \in 1..Len(cell_positions) :
                          /\ cell_positions[i].line = a
                          /\ cell_positions[i].collumn = b}
                last == cell_positions[CHOOSE i \in of : \A j \in of : j <= i]
                cells == MatchingCells(grid, last)
            IN  IF of = {} THEN EmptyDict ELSE cells[Len(cells)]
        laid(group) ==
            [header |-> <<[group.header[1] EXCEPT !.cols =
                [col \in 1..collumn_size |->
                    [name |-> IF name_at(0, col) = "" THEN ColumnWithoutName
                              ELSE name_at(0, col),
                     date |-> ""]]]>>,
             content |->
                [line \in 1..row_size |->
                    [kpi_name |-> IF name_at(line, 0) = "" THEN LineWithoutName
                                  ELSE name_at(line, 0),
                     cols |-> [col \in 1..collumn_size |-> cell_at(line, col)],
                     default_style |-> group.content[1].default_style]]]
    IN  IF position_ids = <<>> THEN Raise("ValueError")
        ELSE IF \E w \in written \cup read : ~there(w[1], w[2])
        THEN Raise("IndexError")
        ELSE IF \E g \in 1..Len(grid) : grid[g].content = <<>>
        THEN Raise("IndexError")
        ELSE Ok([g \in 1..Len(grid) |-> laid(grid[g])])

\* Lines 1196-1367: what MisReportInstance._compute returns for template
\* code, or the exception that leaves it.
Laid(code, kv) ==
    LET grid == AssembleGrid(code, kv)
        transposed == IF reports[code].matrix THEN TransposedGrid(grid)
                      ELSE Ok(grid)
    IN  IF transposed.exc # "none" THEN transposed
        ELSE IF reports[code].manual_position
        THEN Positioned(transposed.v, reports[code].position_ids)
        ELSE transposed

\* Lines 1178-1188: the compiler prepared for the template, once, before the
\* loop over the periods.
Prepare ==
    /\ pc = "begin"
    /\ calls' = calls \o Prepared(report_id)
    /\ pc' = "periods"
    /\ Resume(Frame)
    /\ UNCHANGED <<args, ret, reports, period_ids, stack, result, computed>>

\* Lines 1190-1192: a period that is not valid is passed over.
SkipPeriod ==
    /\ pc = "periods"
    /\ period_pos <= Len(period_ids)
    /\ ~period_ids[period_pos].valid
    /\ Resume([Frame EXCEPT !.period_pos = @ + 1])
    /\ UNCHANGED <<calls, args, ret, reports, period_ids, pc, stack, result, computed>>

\* (the template computed for a period whether it is valid or not)
BeginAnyPeriod ==
    /\ pc = "periods"
    /\ period_pos <= Len(period_ids)
    /\ Resume(Begun(Frame, report_id, period_ids[period_pos].id))
    /\ pc' = "loop"
    /\ computed' = Append(computed, [report |-> report_id,
                                     period |-> period_ids[period_pos].id,
                                     depth |-> Len(stack)])
    /\ calls' = calls \o Fetched(report_id, period_ids[period_pos].id)
    /\ UNCHANGED <<args, ret, reports, period_ids, stack, result>>

\* Lines 1193, 1008-1021: the template is computed for a valid period.
BeginPeriod ==
    /\ pc = "periods"
    /\ period_pos <= Len(period_ids)
    /\ period_ids[period_pos].valid
    /\ Resume(Begun(Frame, report_id, period_ids[period_pos].id))
    /\ pc' = "loop"
    /\ computed' = Append(computed, [report |-> report_id,
                                     period |-> period_ids[period_pos].id,
                                     depth |-> Len(stack)])
    /\ calls' = calls \o Fetched(report_id, period_ids[period_pos].id)
    /\ UNCHANGED <<args, ret, reports, period_ids, stack, result>>

\* Lines 628, 1194: MisReport._compute returns res, kept under the period.
EndPeriod ==
    /\ pc = "done"
    /\ report_id # NoReport
    /\ Resume([Frame EXCEPT !.kpi_values_by_period_ids = Bind(@, period_id, res),
                            !.period_pos = @ + 1])
    /\ pc' = "periods"
    /\ UNCHANGED <<calls, args, ret, reports, period_ids, stack, result, computed>>

\* ----------------------------------------------- sub-reports (lines 487-564)
\* Line 487: the expression of the KPI holds a '.'.
BeginSub ==
    /\ pc = "loop"
    /\ pos <= Len(compute_queue)
    /\ HasDot(KpiAt(Frame).expression)
    /\ Resume([Frame EXCEPT !.kpi_eval_expression = replace_expr(KpiAt(Frame).expression),
                            !.sub_pos = 1,
                            !.inherit_active_subreport_ids = {}])
    /\ pc' = "sub"
    /\ UNCHANGED <<calls, args, ret, reports, period_ids, stack, result, computed>>

\* The sub-expression the loop of line 492 is at.
sub_expression == sub_expressions(KpiAt(Frame).expression)[sub_pos]
report_code == sub_expression[2]
kpi_name == sub_expression[3]

\* Lines 498-504: a template has the code and a KPI of the name.
Found ==
    /\ report_code \in DOMAIN reports
    /\ \E i \in 1..Len(reports[report_code].kpi_ids) :
            reports[report_code].kpi_ids[i].name = kpi_name

\* Line 521: not inherit_subreport_vals.get(code), true of no entry and of
\* an empty one.
Unknown(memo, code) ==
    IF code \in DOMAIN memo THEN memo[code] = EmptyDict ELSE TRUE

\* Lines 510-517: the dots replaced, the template noted.
Resolved(f) ==
    [f EXCEPT !.kpi_eval_expression = dots_replaced(@),
              !.inherit_active_subreport_ids = @ \cup {report_code}]

\* Lines 503-504 false: the sub-expression is left as it is.
SubSkip ==
    /\ pc = "sub"
    /\ sub_pos <= Len(sub_expressions(KpiAt(Frame).expression))
    /\ ~Found
    /\ Resume([Frame EXCEPT !.sub_pos = @ + 1])
    /\ UNCHANGED <<calls, args, ret, reports, period_ids, pc, stack, result, computed>>

\* Line 521 false: the sub-report has its values in the scope already.
SubKnown ==
    /\ pc = "sub"
    /\ sub_pos <= Len(sub_expressions(KpiAt(Frame).expression))
    /\ Found
    /\ ~Unknown(inherit_subreport_vals, report_code)
    /\ Resume([Resolved(Frame) EXCEPT !.sub_pos = @ + 1])
    /\ UNCHANGED <<calls, args, ret, reports, period_ids, pc, stack, result, computed>>

\* Lines 521-534: the entry made empty, and the instance computed on the
\* sub-report, the caller waiting.
SubCall ==
    /\ pc = "sub"
    /\ sub_pos <= Len(sub_expressions(KpiAt(Frame).expression))
    /\ Found
    /\ Unknown(inherit_subreport_vals, report_code)
    /\ Len(stack) < MaxDepth
    /\ stack' = Append(stack,
            [Resolved(Frame) EXCEPT
                !.inherit_subreport_vals = Bind(@, report_code, EmptyDict),
                !.sub_calls = Bind(@, report_code,
                    IF report_code \in DOMAIN @ THEN @[report_code] + 1 ELSE 1)])
    /\ Resume([Idle EXCEPT !.report_id = report_code, !.period_pos = 1])
    /\ pc' = "periods"
    /\ calls' = calls \o Prepared(report_code)
    /\ UNCHANGED <<args, ret, reports, period_ids, result, computed>>

\* Lines 521-534 at the recursion limit: the entry is made empty and the call
\* raises RuntimeError inside the try block, which the except clause of line
\* 578 takes.
SubTooDeep ==
    /\ pc = "sub"
    /\ sub_pos <= Len(sub_expressions(KpiAt(Frame).expression))
    /\ Found
    /\ Unknown(inherit_subreport_vals, report_code)
    /\ Len(stack) = MaxDepth
    /\ LET f == [Resolved(Frame) EXCEPT
                    !.inherit_subreport_vals = Bind(@, report_code, EmptyDict)]
           g == Evaluated(f, Raise("RuntimeError"))
       IN  Resume(g) /\ pc' = AfterTurn(g)
    /\ UNCHANGED <<calls, args, ret, reports, period_ids, stack, result, computed>>

\* Lines 536-538: the rows of all the groups of a grid.
RECURSIVE Content(_)
Content(grid) ==
    IF grid = <<>> THEN <<>>
    ELSE grid[1].content \o Content(SubSeq(grid, 2, Len(grid)))

\* Lines 547-552: the first cell of a row that is of the period, {} if none.
kpi_unique_col(row, pid) ==
    LET of == {c \in 1..Len(row.cols) : row.cols[c].period_id = pid} IN
    IF of = {} THEN EmptyDict
    ELSE row.cols[CHOOSE c \in of : \A d \in of : c <= d]

\* dict.get('val')
GetVal(cell) == IF "val" \in DOMAIN cell THEN cell.val ELSE PyNone

\* Lines 536-564: the caller f takes the rows of the grid of sub-report code.
Inherited(f, code, grid) ==
    LET content == Content(grid)
        names == {content[i].kpi_unique_name : i \in 1..Len(content)}
        row(n) == content[CHOOSE i \in 1..Len(content) : content[i].kpi_unique_name = n]
        cell(n) == kpi_unique_col(row(n), f.period_id)
        key(n) == code \o "_" \o n
    IN  [f EXCEPT
            !.inherit_subreport_vals = Bind(@, code, [n \in names |-> cell(n)]),
            !.localdict = [x \in DOMAIN @ \cup {key(n) : n \in names} |->
                                IF \E n \in names : x = key(n)
                                THEN GetVal(cell(CHOOSE n \in names : x = key(n)))
                                ELSE @[x]],
            !.sub_pos = @ + 1]

\* Line 1367 in a nested activation: the grid goes to the waiting caller
\* (the templates KPIs refer to are neither matrix nor manual-position).
SubReturn ==
    /\ pc = "periods"
    /\ period_pos > Len(period_ids)
    /\ stack # <<>>
    /\ \E grid \in {AssembleGrid(report_id, kpi_values_by_period_ids)} :
        \E g \in {Inherited(stack[Len(stack)], report_id, grid)} : Resume(g)
    /\ stack' = SubSeq(stack, 1, Len(stack) - 1)
    /\ pc' = "sub"
    /\ UNCHANGED <<calls, args, ret, reports, period_ids, result, computed>>

\* An exception leaves the nested activation (kpi.render, line 583): it is
\* raised in the caller's try block, at line 532.
Unwind ==
    /\ pc = "raised"
    /\ stack # <<>>
    /\ LET g == Evaluated(stack[Len(stack)], Raise(trace[Len(trace)].raised)) IN
       Resume(g) /\ pc' = AfterTurn(g)
    /\ stack' = SubSeq(stack, 1, Len(stack) - 1)
    /\ UNCHANGED <<calls, args, ret, reports, period_ids, result, computed>>

\* Line 566 on, for a KPI whose sub-expressions have all been seen.
FinishSub ==
    /\ pc = "sub"
    /\ sub_pos > Len(sub_expressions(KpiAt(Frame).expression))
    /\ LET g == Evaluated(Frame, safe_eval(kpi_eval_expression, localdict)) IN
       Resume(g) /\ pc' = AfterTurn(g)
    /\ UNCHANGED <<calls, args, ret, reports, period_ids, stack, result, computed>>

\* Line 1367 in the outermost activation, or an exception of lines
\* 1285-1365 leaving it (kept in ret).
Return ==
    /\ pc = "periods"
    /\ period_pos > Len(period_ids)
    /\ stack = <<>>
    /\ LET laid == Laid(report_id, kpi_values_by_period_ids) IN
        IF laid.exc = "none"
        THEN result' = laid.v /\ pc' = "returned" /\ ret' = ret
        ELSE result' = result /\ pc' = "raised" /\ ret' = laid
    /\ Resume(Frame)
    /\ UNCHANGED <<calls, args, reports, period_ids, stack, computed>>

\* The KPIs of the report computed, and the templates its KPIs may name.
MainPool == <<
    K(Dot("sub", "aa"), Empty, "num"),
    K(Add(Dot("sub", "aa"), Dot("sub", "bb")), Empty, "num"),
    K(Add(Dot("sub", "aa"), Var("b")), Empty, "num"),
    K(Dot("leaf", "aa"), Empty, "num"),
    K(Dot("nosuch", "aa"), Empty, "num"),
    K(Lit(2), Empty, "num"),
    K(Acc(Num(5)), Empty, "num"),
    K(Add(Dot("sub", "aa"), Acc(Num(5))), Empty, "num"),
    K(Div(Acc(Num(5)), Lit(0)), Empty, "num"),
    K(Acc(AccountingNone), Empty, "num")
>>
SubNames == <<"aa", "bb">>
SubTemplates == <<
    <<K(Lit(2), Empty, "num")>>,
    <<K(Lit(2), Empty, "num"), K(Lit(0), Empty, "num")>>,
    <<K(Dot("leaf", "aa"), Empty, "num"), K(Lit(2), Empty, "num")>>,
    <<Hidden(K(Lit(2), Empty, "num"))>>,
    <<K(LitStr, Empty, "num"), K(Lit(2), Empty, "num")>>,
    <<>>,
    <<K(Div(Lit(1), Lit(0)), Empty, "num"), K(Lit(2), Empty, "num")>>,
    <<Hidden(K(Lit(2), Empty, "num")), K(Lit(0), Empty, "num")>>
>>
Template(names, vs) ==
    MisReport([i \in 1..Len(vs) |-> MisReportKpi(i, names[i], vs[i])])

\* MisReportInstance.compute (lines 1157-1174) on a report of at most
\* MaxInstKpis KPIs, for at most MaxPeriods periods, valid or not.
InitInst ==
    \E n \in 1..MaxInstKpis, m \in 1..MaxPeriods, s \in 1..Len(SubTemplates) :
      \E f \in [1..n -> 1..Len(MainPool)], valid \in [1..m -> BOOLEAN] :
        /\ reports = [c \in {"main", "sub", "leaf"} |->
              CASE c = "main" -> Template(Names, [i \in 1..n |-> MainPool[f[i]]])
                [] c = "sub" -> Template(SubNames, SubTemplates[s])
                [] OTHER -> Template(SubNames, <<K(Lit(1), Empty, "num")>>)]
        /\ period_ids = [i \in 1..m |->
                              MisReportInstancePeriod(i, valid[i], <<>>, 1)]
        /\ report_id = "main"
        /\ period_pos = 1
        /\ kpi_values_by_period_ids = EmptyDict
        /\ self = Idle.self
        /\ period_id = Idle.period_id
        /\ compute_queue = Idle.compute_queue
        /\ recompute_queue = Idle.recompute_queue
        /\ pos = Idle.pos
        /\ localdict = Idle.localdict
        /\ res = Idle.res
        /\ inherit_subreport_vals = Idle.inherit_subreport_vals
        /\ kpi_eval_expression = Idle.kpi_eval_expression
        /\ sub_pos = Idle.sub_pos
        /\ inherit_active_subreport_ids = Idle.inherit_active_subreport_ids
        /\ pc = "periods"
        /\ stack = <<>>
        /\ result = <<>>
        /\ passes = Idle.passes
        /\ trace = Idle.trace
        /\ pass_log = Idle.pass_log
        /\ sub_calls = Idle.sub_calls
        /\ computed = <<>>
        /\ calls = Prepared("main")
        /\ args = <<>>
        /\ ret = <<>>

NextInst ==
    \/ SkipPeriod \/ BeginPeriod \/ EndPeriod
    \/ EvalKpi \/ EndPass
    \/ BeginSub \/ SubSkip \/ SubKnown \/ SubCall \/ FinishSub
    \/ SubReturn \/ Unwind \/ Return

SpecInst == InitInst /\ [][NextInst]_vars

\* ------------------------------------------ the grid of a report instance
\* MisReportInstance.compute, from the first line of _compute, on a template
\* without references to other templates, whose KPIs may break a column, title a column or be invisible,
\* for periods that are compared with each other and with a period that is
\* not one of the instance's own (the ids above those of period_ids).
GridPool == <<
    K(Lit(2), Empty, "num"),
    Break(K(Lit(1), Empty, "num")),
    Title(K(Lit(1), Empty, "num")),
    Break(Title(K(Lit(2), Empty, "num"))),
    Hidden(K(Lit(1), Empty, "num")),
    K(Var("zz"), Empty, "num")
>>

PeriodIds == 1..(MaxPeriods + 1)
Ascending(S) == SelectSeq([i \in PeriodIds |-> i], LAMBDA i : i \in S)

InitGrid ==
    \E n \in 0..MaxInstKpis, m \in 1..MaxPeriods :
      \E f \in [1..n -> 1..Len(GridPool)], valid \in [PeriodIds -> BOOLEAN],
         compared \in [1..m -> SUBSET PeriodIds], factor \in 1..MaxFactor :
        LET period(i, comparison_column_ids) ==
                MisReportInstancePeriod(i, valid[i], comparison_column_ids,
                                        IF i = 1 THEN factor ELSE 1)
        IN
        /\ \A i \in 1..m : i \notin compared[i]
        /\ reports = [c \in {"main"} |->
                         Template(Names, [i \in 1..n |-> GridPool[f[i]]])]
        /\ period_ids = [i \in 1..m |->
              period(i, [k \in 1..Cardinality(compared[i]) |->
                            period(Ascending(compared[i])[k], <<>>)])]
        /\ report_id = "main"
        /\ period_pos = 1
        /\ kpi_values_by_period_ids = EmptyDict
        /\ self = Idle.self
        /\ period_id = Idle.period_id
        /\ compute_queue = Idle.compute_queue
        /\ recompute_queue = Idle.recompute_queue
        /\ pos = Idle.pos
        /\ localdict = Idle.localdict
        /\ res = Idle.res
        /\ inherit_subreport_vals = Idle.inherit_subreport_vals
        /\ kpi_eval_expression = Idle.kpi_eval_expression
        /\ sub_pos = Idle.sub_pos
        /\ inherit_active_subreport_ids = Idle.inherit_active_subreport_ids
        /\ pc = "begin"
        /\ stack = <<>>
        /\ result = <<>>
        /\ passes = Idle.passes
        /\ trace = Idle.trace
        /\ pass_log = Idle.pass_log
        /\ sub_calls = Idle.sub_calls
        /\ computed = <<>>
        /\ calls = <<>>
        /\ args = <<>>
        /\ ret = <<>>

NextGrid ==
    \/ Prepare \/ SkipPeriod \/ BeginPeriod \/ EndPeriod
    \/ EvalKpi \/ EndPass \/ Return

SpecGrid == InitGrid /\ [][NextGrid]_vars

\* --------------------------------------- matrix and manual-position grids
\* MisReportInstance.compute on a template that may be marked matrix and
\* manual-position; the position entries of a template in the order of
\* mis.report.position (collumn, line).
LayoutPool == <<
    K(Lit(2), Empty, "num"),
    Hidden(K(Lit(1), Empty, "num")),
    Break(K(Lit(1), Empty, "num")),
    K(Var("zz"), Empty, "num")
>>

PositionSets ==
    { <<>>,
      << MisReportPosition(1, 1, 1, 1, "") >>,
      << MisReportPosition(1, 0, 0, 0, "L1"), MisReportPosition(2, 0, 0, 0, "L2"),
         MisReportPosition(0, 1, 0, 0, "H1"), MisReportPosition(1, 1, 1, 1, ""),
         MisReportPosition(0, 2, 0, 0, "H2"), MisReportPosition(2, 2, 2, 2, "") >>,
      << MisReportPosition(2, 3, 1, 2, "") >>,
      << MisReportPosition(2, 1, 1, 1, "") >>,
      << MisReportPosition(1, 0, 0, 0, "L1"), MisReportPosition(0, 1, 0, 0, "H1") >> }

InitLayout ==
    \E n \in 0..MaxInstKpis, m \in 1..MaxPeriods :
      \E f \in [1..n -> 1..Len(LayoutPool)], valid \in [1..m -> BOOLEAN],
         compares \in BOOLEAN, matrix \in BOOLEAN, manual_position \in BOOLEAN,
         position_ids \in PositionSets :
        LET period(i, comparison_column_ids) ==
                MisReportInstancePeriod(i, valid[i], comparison_column_ids, 1)
        IN
        /\ compares => m > 1
        /\ ~manual_position => position_ids = <<>>
        /\ reports = [c \in {"main"} |->
              [Template(Names, [i \in 1..n |-> LayoutPool[f[i]]])
                  EXCEPT !.matrix = matrix,
                         !.manual_position = manual_position,
                         !.position_ids = position_ids]]
        /\ period_ids = [i \in 1..m |->
              period(i, IF compares /\ i = 1 THEN <<period(2, <<>>)>> ELSE <<>>)]
        /\ report_id = "main"
        /\ period_pos = 1
        /\ kpi_values_by_period_ids = EmptyDict
        /\ self = Idle.self
        /\ period_id = Idle.period_id
        /\ compute_queue = Idle.compute_queue
        /\ recompute_queue = Idle.recompute_queue
        /\ pos = Idle.pos
        /\ localdict = Idle.localdict
        /\ res = Idle.res
        /\ inherit_subreport_vals = Idle.inherit_subreport_vals
        /\ kpi_eval_expression = Idle.kpi_eval_expression
        /\ sub_pos = Idle.sub_pos
        /\ inherit_active_subreport_ids = Idle.inherit_active_subreport_ids
        /\ pc = "periods"
        /\ stack = <<>>
        /\ result = <<>>
        /\ passes = Idle.passes
        /\ trace = Idle.trace
        /\ pass_log = Idle.pass_log
        /\ sub_calls = Idle.sub_calls
        /\ computed = <<>>
        /\ calls = Prepared("main")
        /\ args = <<>>
        /\ ret = <<>>

NextLayout ==
    \/ SkipPeriod \/ BeginPeriod \/ EndPeriod
    \/ EvalKpi \/ EndPass \/ Return

SpecLayout == InitLayout /\ [][NextLayout]_vars

\* ------------------------------------------- templates that name each other
\* MisReportInstance.compute on a template main whose KPIs may name the KPIs
\* of sub or its own, while those of sub may name the KPIs of main.
CycleMain == <<
    <<K(Dot("sub", "aa"), Empty, "num")>>,
    <<K(Dot("main", "aa"), Empty, "num")>>,
    <<K(Dot("sub", "aa"), Empty, "num"), K(Lit(2), Empty, "num")>>,
    <<K(Add(Dot("sub", "aa"), Dot("sub", "bb")), Empty, "num")>>,
    <<K(Dot("nosuch", "aa"), Empty, "num")>>
>>
CycleSub == <<
    <<K(Lit(2), Empty, "num"), K(Lit(1), Empty, "num")>>,
    <<K(Dot("main", "aa"), Empty, "num")>>,
    <<K(Dot("main", "bb"), Empty, "num"), K(Lit(1), Empty, "num")>>,
    <<K(LitStr, Empty, "num")>>
>>

InitCycle ==
    \E a \in 1..Len(CycleMain), b \in 1..Len(CycleSub), m \in 1..MaxPeriods :
      \E valid \in [1..m -> BOOLEAN] :
        /\ reports = [c \in {"main", "sub"} |->
              IF c = "main" THEN Template(SubNames, CycleMain[a])
              ELSE Template(SubNames, CycleSub[b])]
        /\ period_ids = [i \in 1..m |->
                              MisReportInstancePeriod(i, valid[i], <<>>, 1)]
        /\ report_id = "main"
        /\ period_pos = 1
        /\ kpi_values_by_period_ids = EmptyDict
        /\ self = Idle.self
        /\ period_id = Idle.period_id
        /\ compute_queue = Idle.compute_queue
        /\ recompute_queue = Idle.recompute_queue
        /\ pos = Idle.pos
        /\ localdict = Idle.localdict
        /\ res = Idle.res
        /\ inherit_subreport_vals = Idle.inherit_subreport_vals
        /\ kpi_eval_expression = Idle.kpi_eval_expression
        /\ sub_pos = Idle.sub_pos
        /\ inherit_active_subreport_ids = Idle.inherit_active_subreport_ids
        /\ pc = "periods"
        /\ stack = <<>>
        /\ result = <<>>
        /\ passes = Idle.passes
        /\ trace = Idle.trace
        /\ pass_log = Idle.pass_log
        /\ sub_calls = Idle.sub_calls
        /\ computed = <<>>
        /\ calls = Prepared("main")
        /\ args = <<>>
        /\ ret = <<>>

NextCycle ==
    \/ SkipPeriod \/ BeginPeriod \/ EndPeriod
    \/ EvalKpi \/ EndPass
    \/ BeginSub \/ SubSkip \/ SubKnown \/ SubCall \/ SubTooDeep \/ FinishSub
    \/ SubReturn \/ Unwind \/ Return

SpecCycle == InitCycle /\ [][NextCycle]_vars

\* One computation serves one request and runs to completion (the engine is
\* single-threaded and synchronous): a step that can be taken is taken.
SpecCycleRun == SpecCycle /\ WF_vars(NextCycle)

\* ---------------------------------------------- methods called by themselves
\* The variables of the report computation, and their values when no report
\* is computed.
computation ==
    <<reports, period_ids, report_id, period_pos, kpi_values_by_period_ids,
      self, period_id, compute_queue, recompute_queue, pos, localdict, res,
      inherit_subreport_vals, kpi_eval_expression, sub_pos,
      inherit_active_subreport_ids, stack, result,
      passes, trace, pass_log, sub_calls, computed, calls>>
NoComputation ==
    /\ reports = EmptyDict
    /\ period_ids = <<>>
    /\ report_id = Idle.report_id
    /\ period_pos = Idle.period_pos
    /\ kpi_values_by_period_ids = Idle.kpi_values_by_period_ids
    /\ self = Idle.self
    /\ period_id = Idle.period_id
    /\ compute_queue = Idle.compute_queue
    /\ recompute_queue = Idle.recompute_queue
    /\ pos = Idle.pos
    /\ localdict = Idle.localdict
    /\ res = Idle.res
    /\ inherit_subreport_vals = Idle.inherit_subreport_vals
    /\ kpi_eval_expression = Idle.kpi_eval_expression
    /\ sub_pos = Idle.sub_pos
    /\ inherit_active_subreport_ids = Idle.inherit_active_subreport_ids
    /\ stack = <<>>
    /\ result = <<>>
    /\ passes = Idle.passes
    /\ trace = Idle.trace
    /\ pass_log = Idle.pass_log
    /\ sub_calls = Idle.sub_calls
    /\ computed = <<>>
    /\ calls = <<>>

\* The values of a KPI for a period: None, AccountingNone, a whole number.
Vals == {PyNone, AccountingNone} \cup {Num(n) : n \in -MaxValue..MaxValue}

\* render_comparison called on a KPI of any type, comparison method and
\* precision up to MaxDp, for values up to MaxValue and normalize factors up
\* to MaxFactor.
InitCmp ==
    \E type \in {"num", "pct", "str"}, compare_method \in {"diff", "pct", "none"},
       divider \in {"1", "1e3", "1e-3"}, dp \in 0..MaxDp,
       value \in Vals, base_value \in Vals,
       average_value \in 1..MaxFactor, average_base_value \in 1..MaxFactor :
        /\ args = [kpi |-> [type |-> type, compare_method |-> compare_method,
                            divider |-> divider, dp |-> dp,
                            prefix |-> "", suffix |-> ""],
                   value |-> value, base_value |-> base_value,
                   average_value |-> average_value,
                   average_base_value |-> average_base_value]
        /\ ret = <<>>
        /\ pc = "call"
        /\ NoComputation

RenderComparison ==
    /\ pc = "call"
    /\ ret' = render_comparison(args.kpi, args.value, args.base_value,
                                args.average_value, args.average_base_value)
    /\ pc' = "returned"
    /\ UNCHANGED <<args, computation>>

NextCmp == RenderComparison

SpecCmp == InitCmp /\ [][NextCmp]_vars

\* ------------------------------------------- MisReportInstancePeriod dates
\* A date string 'YYYY-MM-DD' is <<y, m, d>>; a datetime.date is its
\* proleptic Gregorian ordinal (0001-01-01 is day 1), which is what date
\* arithmetic with a timedelta works on.  False is the empty tuple for a
\* date field and 0 for a many2one field.
NoDate == <<>>
NoPeriod == 0

IsLeap(y) == y % 4 = 0 /\ (y % 100 # 0 \/ y % 400 = 0)
DaysInMonth(y, m) ==
    IF m = 2 THEN (IF IsLeap(y) THEN 29 ELSE 28)
    ELSE IF m \in {4, 6, 9, 11} THEN 30 ELSE 31
DaysBeforeYear(y) ==
    (y - 1) * 365 + (y - 1) \div 4 - (y - 1) \div 100 + (y - 1) \div 400
RECURSIVE DaysBeforeMonth(_, _)
DaysBeforeMonth(y, m) ==
    IF m = 1 THEN 0 ELSE DaysBeforeMonth(y, m - 1) + DaysInMonth(y, m - 1)

\* fields.Date.from_string and fields.Date.to_string.
from_string(s) == DaysBeforeYear(s[1]) + DaysBeforeMonth(s[1], s[2]) + s[3]
to_string(n) ==
    LET y == CHOOSE y \in (n \div 366)..(n \div 365 + 1) :
                 DaysBeforeYear(y) < n /\ n <= DaysBeforeYear(y + 1)
        r == n - DaysBeforeYear(y)
        m == CHOOSE m \in 1..12 :
                 DaysBeforeMonth(y, m) < r
                     /\ r <= DaysBeforeMonth(y, m) + DaysInMonth(y, m)
    IN  <<y, m, r - DaysBeforeMonth(y, m)>>

\* date.weekday(): Monday is 0.
weekday(n) == (n + 6) % 7

\* account.period.search(domain, order='date_start') over the ledger, a
\* sequence of records in table order: the positions of the matching
\* records, those with the earlier date_start first.
Matching(ledger, company_id) ==
    {i \in 1..Len(ledger) :
        ~ledger[i].special /\ ledger[i].company_id = company_id}
RECURSIVE OrderedByDateStart(_, _)
OrderedByDateStart(ledger, S) ==
    IF S = {} THEN <<>>
    ELSE LET i == CHOOSE i \in S : \A j \in S :
                      from_string(ledger[i].date_start)
                          <= from_string(ledger[j].date_start)
         IN  <<i>> \o OrderedByDateStart(ledger, S \ {i})

\* The fields _compute_dates writes.
DateFields(date_from, date_to, period_from, period_to, valid) ==
    [date_from |-> date_from, date_to |-> date_to,
     period_from |-> period_from, period_to |-> period_to, valid |-> valid]
Unset == DateFields(NoDate, NoDate, NoPeriod, NoPeriod, FALSE)

DayDates(self_, d) ==
    LET date_from == d + self_.offset
        date_to == date_from + (self_.duration - 1)
    IN  DateFields(to_string(date_from), to_string(date_to),
                   NoPeriod, NoPeriod, TRUE)

\* (the week counted from the pivot date itself, not from its Monday)
WeekDatesFromPivot(self_, d) ==
    LET date_from == d + self_.offset * 7
        date_to == date_from + ((7 * self_.duration) - 1)
    IN  DateFields(to_string(date_from), to_string(date_to),
                   NoPeriod, NoPeriod, TRUE)
WeekDates(self_, d) ==
    LET monday == d - weekday(d)
        date_from == monday + self_.offset * 7
        date_to == date_from + ((7 * self_.duration) - 1)
    IN  DateFields(to_string(date_from), to_string(date_to),
                   NoPeriod, NoPeriod, TRUE)

\* (a window may not start at the first period of the list)
WindowAfterFirst(p, duration, n) == p > 0 /\ p + duration <= n
WindowInside(p, duration, n) == p >= 0 /\ p + duration <= n

FiscalDates(self_, d, ledger) ==
    LET mine == Matching(ledger, self_.company_id)
        current_periods ==
            {i \in mine : /\ from_string(ledger[i].date_start) <= d
                          /\ from_string(ledger[i].date_stop) >= d}
        all_periods == OrderedByDateStart(ledger, mine)
        all_period_ids == [i \in 1..Len(all_periods) |-> ledger[all_periods[i]].id]
        first == CHOOSE i \in current_periods : \A j \in current_periods :
                     from_string(ledger[i].date_start)
                         <= from_string(ledger[j].date_start)
        p == index(all_period_ids, ledger[first].id) + self_.offset
        periods == SubSeq(all_periods, p + 1, p + self_.duration)
    IN  IF current_periods = {} THEN Unset
        ELSE IF WindowInside(p, self_.duration, Len(all_period_ids))
        THEN DateFields(ledger[periods[1]].date_start,
                        ledger[periods[Len(periods)]].date_stop,
                        ledger[periods[1]].id,
                        ledger[periods[Len(periods)]].id, TRUE)
        ELSE Unset

compute_dates(self_, pivot_date, ledger) ==
    LET d == from_string(pivot_date)
    IN  CASE self_.type = "d" -> DayDates(self_, d)
          [] self_.type = "w" -> WeekDates(self_, d)
          [] self_.type = "fp" -> FiscalDates(self_, d, ledger)
          [] OTHER -> Unset

\* Offsets and durations of the period instances, and the pivot dates: the
\* days around the end of a year, the end of February of a leap year and of
\* a common year, and one whole week of March 2024.
MaxOffset == 2
MaxDuration == 2
Days(y, m, from, to) == {<<y, m, d>> : d \in from..to}
PivotDates ==
    Days(2023, 12, 28, 31) \cup Days(2024, 1, 1, 3)
        \cup Days(2024, 2, 26, 29) \cup Days(2024, 3, 1, 3)
        \cup Days(2023, 2, 26, 28) \cup Days(2023, 3, 1, 2)
        \cup Days(2024, 3, 11, 17)

\* account.period records; the periods of one company that are not special
\* do not overlap (a constraint of account.period).
Period(id, date_start, date_stop, special, company_id) ==
    [id |-> id, date_start |-> date_start, date_stop |-> date_stop,
     special |-> special, company_id |-> company_id]
Month(id, y, m, company_id) ==
    Period(id, <<y, m, 1>>, <<y, m, DaysInMonth(y, m)>>, FALSE, company_id)
Ledgers ==
    { <<>>,
      << Month(1, 2024, 2, 1), Month(2, 2024, 3, 1), Month(3, 2024, 1, 1) >>,
      << Period(4, <<2024, 1, 1>>, <<2024, 1, 1>>, TRUE, 1),
         Month(3, 2024, 1, 1), Month(5, 2023, 12, 2), Month(1, 2024, 2, 1),
         Month(6, 2024, 1, 2), Month(2, 2024, 3, 1) >>,
      << Month(2, 2024, 3, 1), Month(7, 2023, 12, 1), Month(3, 2024, 1, 1) >>,
      << Period(8, <<2024, 1, 1>>, <<2024, 3, 31>>, FALSE, 1) >> }

InitDates ==
    \E type \in {"d", "w", "fp"}, offset \in -MaxOffset..MaxOffset,
       duration \in 1..MaxDuration, company_id \in {1, 2},
       pivot_date \in PivotDates, ledger \in Ledgers :
        /\ args = [period |-> [type |-> type, offset |-> offset,
                               duration |-> duration, company_id |-> company_id],
                   pivot_date |-> pivot_date, account_period |-> ledger]
        /\ ret = <<>>
        /\ pc = "call"
        /\ NoComputation

ComputeDates ==
    /\ pc = "call"
    /\ ret' = compute_dates(args.period, args.pivot_date, args.account_period)
    /\ pc' = "returned"
    /\ UNCHANGED <<args, computation>>

NextDates == ComputeDates

SpecDates == InitDates /\ [][NextDates]_vars

\* ------------------------------------------------- what the claims speak of
Max(x, y) == IF x > y THEN x ELSE y
KpiCount == Len(kpi_ids)
KpiNames == {kpi_ids[i].name : i \in 1..KpiCount}

\* The evaluations (places in trace) of KPI k, and those of pass p.
EvalsOf(k) == {i \in 1..Len(trace) : trace[i].kpi = k}
EvalsIn(p) == {i \in 1..Len(trace) : trace[i].pass = p}
ResolvedIn(p) == {trace[i].kpi : i \in {j \in EvalsIn(p) : trace[j].exc = "none"}}

\* KPI i references KPI j; the KPIs i depends on through references.
Deps(i) == {j \in 1..KpiCount : kpi_ids[j].name \in Refs(kpi_ids[i].expression)}
RECURSIVE Reach(_, _)
Reach(S, fuel) ==
    IF fuel = 0 THEN S ELSE Reach(S \cup UNION {Deps(j) : j \in S}, fuel - 1)
TransDeps(i) == Reach(Deps(i), KpiCount)
Acyclic == \A i \in 1..KpiCount : i \notin TransDeps(i)
NamesKnown ==
    \A i \in 1..KpiCount :
        Refs(kpi_ids[i].expression) \subseteq DOMAIN Seed(reports[self]) \cup KpiNames

\* The values of the KPIs by their formulas alone, whatever the order of
\* declaration: the scope grown, fuel times, by every KPI whose formula
\* evaluates in it.
RECURSIVE IdealScope(_, _)
IdealScope(ld, fuel) ==
    IF fuel = 0 THEN ld
    ELSE LET ok == {i \in 1..KpiCount :
                        safe_eval(kpi_ids[i].expression, ld).exc = "none"}
             of(n) == CHOOSE i \in ok : kpi_ids[i].name = n
         IN  IdealScope([n \in DOMAIN ld \cup {kpi_ids[i].name : i \in ok} |->
                            IF \E i \in ok : kpi_ids[i].name = n
                            THEN safe_eval(kpi_ids[of(n)].expression, ld).v
                            ELSE ld[n]],
                        fuel - 1)
Ideal == IdealScope(Seed(reports[self]), KpiCount)
\* Every formula evaluates without fault once its references are bound.
NoFault ==
    \A i \in 1..KpiCount :
        /\ kpi_ids[i].name \in DOMAIN Ideal
        /\ render(kpi_ids[i], Ideal[kpi_ids[i].name]).exc = "none"
ValOf(v) == IF v = AccountingNone THEN PyNone ELSE v

\* ------------------------------------------------------------------ claims

\* C1 as the spec has it: the retry loop of MisReport._compute makes at most
\* N passes over a compute queue, N the number of KPIs of the template.
C1_AtMostNPasses == passes <= KpiCount

\* C1, amended: the loop makes at most max(N, 1) passes (a template without
\* KPIs takes one pass over the empty queue), whatever the evaluations raise.
C1_PassesBounded == passes <= Max(KpiCount, 1)

C1_Witness == pc = "done" /\ KpiCount >= 2 /\ passes = KpiCount

\* C2 as the spec has it: when every name a formula references is seeded or
\* a KPI of the template and the references form no cycle, no KPI ends with
\* '#ERR' (stated here for the runs in which no evaluation raises a value
\* error or another fault, so that only division by zero is left to fail).
C2_NoErrWhenWellFormed ==
    (/\ pc = "done"
     /\ NamesKnown /\ Acyclic
     /\ \A i \in 1..Len(trace) :
            trace[i].exc \in {"none", "NameError", "ZeroDivisionError"})
    => \A i \in 1..KpiCount : res[kpi_ids[i].name].val_r # ERR

\* C3: when the formulas reference one another without cycle and all
\* evaluate without fault once their references are bound, every KPI ends
\* with the value its formula gives, whatever the order of declaration;
\* a = b + 1, b = 2 takes 2 passes, the retry queue {a} after the first.
C3_Example ==
    /\ KpiCount = 2
    /\ kpi_ids[1].name = "a" /\ kpi_ids[1].expression = Add(Var("b"), Lit(1))
    /\ kpi_ids[2].name = "b" /\ kpi_ids[2].expression = Lit(2)
C3_OrderIndependent ==
    (pc = "done" /\ NamesKnown /\ Acyclic /\ NoFault) =>
        /\ \A i \in 1..KpiCount :
              /\ res[kpi_ids[i].name].val = ValOf(Ideal[kpi_ids[i].name])
              /\ res[kpi_ids[i].name].val_r =
                    render(kpi_ids[i], Ideal[kpi_ids[i].name]).r
        /\ C3_Example =>
              /\ passes = 2
              /\ pass_log[1].retry = <<1>>
              /\ res["a"].val = Num(3)

C3_Witness ==
    /\ pc = "done" /\ C3_Example /\ NoFault /\ Acyclic /\ NamesKnown
    /\ res["a"].val = Num(3)

\* What evaluating e comes to first when x is not bound: the lookup of x
\* ("hit"), the application of an operation, which may raise ("op"), or
\* neither ("none").
RECURSIVE FirstEvent(_, _)
FirstEvent(e, x) ==
    CASE e[1] = "name" -> IF e[2] = x THEN "hit" ELSE "none"
      [] e[1] \in {"add", "div"} ->
            LET l == FirstEvent(e[2], x) IN
            IF l # "none" THEN l
            ELSE LET r == FirstEvent(e[3], x) IN IF r # "none" THEN r ELSE "op"
      [] e[1] = "int" ->
            LET a == FirstEvent(e[2], x) IN IF a # "none" THEN a ELSE "op"
      [] OTHER -> "none"

\* KPIs i and j reference each other.
Mutual(i, j) ==
    /\ i # j
    /\ kpi_ids[j].name \in Refs(kpi_ids[i].expression)
    /\ kpi_ids[i].name \in Refs(kpi_ids[j].expression)
\* The passes in which no KPI is resolved.
IdlePasses == {p \in 1..Len(pass_log) : ResolvedIn(p) = {}}
NotRetried(exc) == exc \notin {"none", "NameError", "ValueError"}

\* C4 as the spec has it: two KPIs that reference each other both end with
\* val None and '#ERR', and the loop stops through the no-progress rule
\* after exactly one pass in which no KPI is resolved, whatever the other
\* KPIs of the template.
C4_CycleOnePass ==
    pc = "done" =>
        \A i, j \in 1..KpiCount : Mutual(i, j) =>
            /\ res[kpi_ids[i].name].val = PyNone
            /\ res[kpi_ids[i].name].val_r = ERR
            /\ pass_log[Len(pass_log)].how = "could not compute anything"
            /\ Cardinality(IdlePasses) = 1

\* C4, amended: two KPIs that reference each other, each formula looking
\* the other's name up before it applies an operation, both end with val
\* None and '#ERR' in the last retry queue; the loop stops through the
\* no-progress rule after a pass that resolves no KPI, and an earlier pass
\* resolves no KPI only when a KPI of it fails without being retried.
C4_CycleStaysErr ==
    pc = "done" =>
        \A i, j \in 1..KpiCount :
            (/\ Mutual(i, j)
             /\ FirstEvent(kpi_ids[i].expression, kpi_ids[j].name) = "hit"
             /\ FirstEvent(kpi_ids[j].expression, kpi_ids[i].name) = "hit") =>
                /\ res[kpi_ids[i].name].val = PyNone
                /\ res[kpi_ids[i].name].val_r = ERR
                /\ {i, j} \subseteq Range(recompute_queue)
                /\ pass_log[Len(pass_log)].how = "could not compute anything"
                /\ Len(pass_log) \in IdlePasses
                /\ \A p \in IdlePasses : p < Len(pass_log) =>
                      \E e \in EvalsIn(p) : NotRetried(trace[e].exc)

C4_Witness ==
    /\ pc = "done" /\ KpiCount = 3 /\ Len(pass_log) = 2
    /\ Mutual(1, 2)
    /\ FirstEvent(kpi_ids[1].expression, kpi_ids[2].name) = "hit"
    /\ FirstEvent(kpi_ids[2].expression, kpi_ids[1].name) = "hit"
    /\ ResolvedIn(1) = {3}

\* C5 as the spec has it: in every run of _compute each KPI of the template
\* is evaluated at least once and gets a result entry.
C5_EveryKpiGetsAnEntry ==
    pc \in {"done", "raised"} =>
        \A i \in 1..KpiCount :
            EvalsOf(i) # {} /\ kpi_ids[i].name \in DOMAIN res

\* C6: a KPI whose evaluation raises division by zero gets val None and
\* '#DIV/0', is not in the retry queue and is not evaluated again.
C6_DivisionByZero ==
    \A i \in 1..Len(trace) : trace[i].exc = "ZeroDivisionError" =>
        LET k == trace[i].kpi IN
        /\ res[kpi_ids[k].name].val = PyNone
        /\ res[kpi_ids[k].name].val_r = DIV0
        /\ k \notin Range(recompute_queue)
        /\ \A j \in EvalsOf(k) : j <= i

C6_Witness ==
    /\ pc = "done"
    /\ \E i \in 1..Len(trace) :
          trace[i].exc = "ZeroDivisionError" /\ trace[i].pass < passes

\* C7: the retry queue of a pass holds exactly the KPIs of the pass whose
\* evaluation raised an undefined-name or value error; a KPI that raised
\* another fault has val None and '#ERR' at once and is never retried.
RetriedIn(p) ==
    {trace[i].kpi : i \in {j \in EvalsIn(p) :
                              trace[j].exc \in {"NameError", "ValueError"}}}
C7_RetryQueue ==
    /\ \A p \in 1..Len(pass_log) : Range(pass_log[p].retry) = RetriedIn(p)
    /\ pc # "raised" => Range(recompute_queue) = RetriedIn(passes)
    /\ \A i \in 1..Len(trace) :
          (NotRetried(trace[i].exc) /\ trace[i].exc # "ZeroDivisionError") =>
              LET k == trace[i].kpi IN
              /\ res[kpi_ids[k].name].val = PyNone
              /\ res[kpi_ids[k].name].val_r = ERR
              /\ k \notin Range(recompute_queue)
              /\ \A j \in EvalsOf(k) : j <= i

C7_Witness ==
    /\ pc = "done"
    /\ \E i, j \in 1..Len(trace) :
          /\ trace[i].exc = "TypeError"
          /\ trace[j].exc = "ValueError" /\ trace[j].pass = 2

\* C8: a style expression never affects the value: each evaluation of a KPI
\* leaves the val, the val_r, the binding and the place in the retry queue
\* that the KPI without its style expression gets, and a style expression
\* that raises leaves the style None.
C8_Step ==
    (Len(trace') = Len(trace) + 1 /\ pc' # "raised") =>
        LET kpi == kpi_ids[trace'[Len(trace')].kpi]
            plain == [kpi EXCEPT !.css_style = Empty]
            o == Handler(plain, safe_eval(plain.expression, localdict))
        IN  /\ res'[kpi.name].val = ValOf(o.kpi_val)
            /\ res'[kpi.name].val_r = o.kpi_val_rendered
            /\ localdict' = IF o.bound THEN Bind(localdict, kpi.name, o.kpi_val)
                            ELSE localdict
            /\ (kpi.id \in Range(recompute_queue')) = o.retry
            /\ (kpi.css_style # Empty
                  /\ safe_eval(kpi.css_style, localdict').exc # "none")
                => res'[kpi.name].style = PyNone
C8_StyleNeverBlocks == [][C8_Step]_vars

C8_Witness ==
    \E i \in 1..KpiCount :
        /\ kpi_ids[i].css_style # Empty
        /\ safe_eval(kpi_ids[i].css_style, localdict).exc # "none"
        /\ kpi_ids[i].name \in DOMAIN res
        /\ res[kpi_ids[i].name].val = Num(2)
        /\ res[kpi_ids[i].name].style = PyNone

\* --------------------------------------------------------------- sub-reports
\* The evaluations a run of MisReport._compute asked of sub-report code: the
\* run in progress, or a run waiting on the stack.
RunsOfCompute == <<Frame>> \o stack

\* C9. Within one run of MisReport._compute (one report, one period) a
\* sub-report referenced through <report_code>.<kpi_name> is evaluated at
\* most once, however many KPIs reference it and however many passes
\* evaluate them, also when its evaluation returns no content row.
C9_SubReportEvaluatedOnce ==
    \A i \in 1..Len(RunsOfCompute) :
        \A code \in DOMAIN RunsOfCompute[i].sub_calls :
            RunsOfCompute[i].sub_calls[code] <= 1

\* The runs of MisReport._compute on template code for period p, begun by a
\* nested computation of the instance.
NestedRuns(code, p) ==
    {i \in 1..Len(computed) :
        /\ computed[i].report = code
        /\ computed[i].period = p
        /\ computed[i].depth > 0}

\* C10. Within one top-level computation of a report instance, each
\* (sub-report, period) pair is evaluated at most once: across the periods
\* of the parent and across the parents that reference the sub-report.
C10_PairEvaluatedOnce ==
    \A code \in DOMAIN reports : \A i \in 1..Len(period_ids) :
        Cardinality(NestedRuns(code, period_ids[i].id)) <= 1

\* The step by which the grid of a sub-report reaches the waiting caller
\* (SubReturn): the caller is the top of the stack, the reference it was
\* resolving is the sub-expression at its sub_pos.
SubReportReturns ==
    /\ pc = "periods"
    /\ period_pos > Len(period_ids)
    /\ stack # <<>>
WaitingReference ==
    LET f == stack[Len(stack)] IN
    sub_expressions(KpiAt(f).expression)[f.sub_pos]

\* C11. A reference <report_code>.<kpi_name> to a KPI the report declares,
\* in a formula evaluated for period p, is bound to the val the sub-report's
\* evaluation gives that KPI for p, whether or not the KPI is invisible.
C11_Step ==
    SubReportReturns =>
        LET p == stack[Len(stack)].period_id
            key == WaitingReference[2] \o "_" \o WaitingReference[3]
        IN  /\ key \in DOMAIN localdict'
            /\ localdict'[key] = kpi_values_by_period_ids[p][WaitingReference[3]].val
C11_ReferenceBound == [][C11_Step]_vars

\* The KPI of template code that has name n.
KpiNamed(code, n) ==
    LET k == reports[code].kpi_ids IN
    k[CHOOSE i \in 1..Len(k) : k[i].name = n]

\* The expression holds a reference <report_code>.<kpi_name> to a KPI that a
\* report declares.
ResolvesReference(e) ==
    \E i \in 1..Len(sub_expressions(e)) :
        LET code == sub_expressions(e)[i][2]
            name == sub_expressions(e)[i][3]
        IN  /\ code \in DOMAIN reports
            /\ \E j \in 1..Len(reports[code].kpi_ids) :
                    reports[code].kpi_ids[j].name = name

\* C12. In every result of MisReport._compute a KPI whose formula resolved
\* a cross-report reference has drilldown = False, and drilldown is True
\* only for a KPI without sub-report dependency whose formula holds an
\* account reference and whose evaluation did not end in '#ERR' or '#DIV/0'.
C12_Drilldown ==
    \A n \in DOMAIN res :
        LET kpi == KpiNamed(self, n) IN
        /\ ResolvesReference(kpi.expression) => ~res[n].drilldown
        /\ res[n].drilldown =>
              /\ ~ResolvesReference(kpi.expression)
              /\ res[n].sub_report_ids = {}
              /\ has_account_var(kpi.expression)
              /\ res[n].val_r \notin {ERR, DIV0}

C12_Witness ==
    \E n, m \in DOMAIN res :
        /\ res[n].drilldown
        /\ ResolvesReference(KpiNamed(self, m).expression)
        /\ has_account_var(KpiNamed(self, m).expression)
        /\ res[m].val_r.k = "num"
        /\ ~res[m].drilldown

\* The expression holds a reference <report_code>.<kpi_name> that no report
\* answers: no report has the code, or the report declares no KPI of the name.
HasUnmatchedReference(e) ==
    \E i \in 1..Len(sub_expressions(e)) :
        LET code == sub_expressions(e)[i][2]
            name == sub_expressions(e)[i][3]
        IN  \/ code \notin DOMAIN reports
            \/ /\ code \in DOMAIN reports
               /\ \A j \in 1..Len(reports[code].kpi_ids) :
                      reports[code].kpi_ids[j].name # name

\* C13. A cross-report reference whose report code matches no report, or
\* whose KPI name the matched report does not declare, is not masked at
\* computation time as a '#ERR' cell of the referencing KPI.
C13_MissingReferenceNotMasked ==
    \A n \in DOMAIN res :
        HasUnmatchedReference(KpiNamed(self, n).expression) => res[n].val_r # ERR

\* ------------------------------------------------------- render_comparison
\* What render shows for a value of the KPI divided by its factor.
ShownAs(kpi, value, average_value) ==
    render([kpi EXCEPT !.type = IF @ = "str" THEN "num" ELSE @],
           Normalized(value, average_value)).r

\* C14. render_comparison returns '' whenever the delta shown is zero after
\* rounding: it never returns a string that shows a zero number, and two
\* values that are shown equal at the KPI's precision compare to ''.
C14_ZeroDeltaIsEmpty ==
    (pc = "returned" /\ ret.exc = "none") =>
        /\ ret.r # EmptyString => ret.r.n # 0
        /\ (/\ args.value.t = "num"
            /\ args.base_value.t = "num"
            /\ ShownAs(args.kpi, args.value, args.average_value)
                 = ShownAs(args.kpi, args.base_value, args.average_base_value))
           => ret.r = EmptyString

\* An operand that is absent: None or the no-data sentinel.
Absent(value) == value \in {PyNone, AccountingNone}

\* C15. render_comparison of an absent value against a present base value,
\* and of a present value against an absent base value, returns '' and
\* raises nothing, for every KPI type and comparison method.
C15_AbsentOperand ==
    (pc = "returned" /\ Absent(args.value) # Absent(args.base_value)) =>
        ret = NoComparison

C15_Witness ==
    /\ pc = "returned"
    /\ args.value = PyNone
    /\ args.base_value = Num(2)
    /\ args.kpi.type = "num"
    /\ args.kpi.compare_method = "diff"
    /\ ret = NoComparison

\* The calendar, day by day: the day after and the day before a date, and
\* the date k days away.
NextDay(s) ==
    IF s[3] < DaysInMonth(s[1], s[2]) THEN <<s[1], s[2], s[3] + 1>>
    ELSE IF s[2] < 12 THEN <<s[1], s[2] + 1, 1>> ELSE <<s[1] + 1, 1, 1>>
PrevDay(s) ==
    IF s[3] > 1 THEN <<s[1], s[2], s[3] - 1>>
    ELSE IF s[2] > 1 THEN <<s[1], s[2] - 1, DaysInMonth(s[1], s[2] - 1)>>
    ELSE <<s[1] - 1, 12, 31>>
RECURSIVE DaysAway(_, _)
DaysAway(s, k) ==
    IF k = 0 THEN s
    ELSE IF k > 0 THEN DaysAway(NextDay(s), k - 1)
    ELSE DaysAway(PrevDay(s), k + 1)

\* Zeller's congruence: the date is a Monday.
IsMonday(s) ==
    LET m == IF s[2] < 3 THEN s[2] + 12 ELSE s[2]
        y == IF s[2] < 3 THEN s[1] - 1 ELSE s[1]
        k == y % 100
        j == y \div 100
    IN  (s[3] + (13 * (m + 1)) \div 5 + k + k \div 4 + j \div 4 + 5 * j) % 7 = 2

\* The Monday of the week of a date: the Monday among the date and the six
\* days before it.
MondayOf(s) == CHOOSE t \in {DaysAway(s, -k) : k \in 0..6} : IsMonday(t)

DayGranularity(period, pivot_date, fields) ==
    /\ fields.valid
    /\ fields.date_from = DaysAway(pivot_date, period.offset)
    /\ fields.date_to = DaysAway(fields.date_from, period.duration - 1)
WeekGranularity(period, pivot_date, fields) ==
    /\ fields.valid
    /\ fields.date_from = DaysAway(MondayOf(pivot_date), 7 * period.offset)
    /\ fields.date_to = DaysAway(fields.date_from, 7 * period.duration - 1)

\* C16: for every pivot date, offset and duration > 0, a day period is valid
\* with date_from = pivot + offset days and date_to = date_from +
\* (duration - 1) days, and a week period is valid with date_from = the
\* Monday of the pivot's week + 7 * offset days and date_to = date_from +
\* 7 * duration - 1 days; pivot 2024-03-15, offset -1, duration 1, day gives
\* 2024-03-14 to 2024-03-14, and the same pivot, offset 0, duration 1, week
\* gives 2024-03-11 to 2024-03-17.
C16_DayAndWeekDates ==
    pc = "returned" =>
        /\ args.period.type = "d" =>
               DayGranularity(args.period, args.pivot_date, ret)
        /\ args.period.type = "w" =>
               WeekGranularity(args.period, args.pivot_date, ret)
        /\ (/\ args.pivot_date = <<2024, 3, 15>> /\ args.period.duration = 1
            /\ args.period.type = "d" /\ args.period.offset = -1) =>
               ret.date_from = <<2024, 3, 14>> /\ ret.date_to = <<2024, 3, 14>>
        /\ (/\ args.pivot_date = <<2024, 3, 15>> /\ args.period.duration = 1
            /\ args.period.type = "w" /\ args.period.offset = 0) =>
               ret.date_from = <<2024, 3, 11>> /\ ret.date_to = <<2024, 3, 17>>

C16_Witness ==
    /\ pc = "returned" /\ args.period.type = "w" /\ ret.valid
    /\ args.pivot_date = <<2024, 3, 15>>
    /\ args.period.offset = 0 /\ args.period.duration = 1
    /\ ret.date_from = <<2024, 3, 11>> /\ ret.date_to = <<2024, 3, 17>>

\* The period list of a fiscal-period instance: the ledger periods of its
\* company that are not special, each at the place given by the number of
\* listed periods that start before it; dates compared as year, month, day.
Earlier(s, t) ==
    \/ s[1] < t[1]
    \/ s[1] = t[1] /\ s[2] < t[2]
    \/ s[1] = t[1] /\ s[2] = t[2] /\ s[3] < t[3]
Listed == {i \in 1..Len(args.account_period) :
              /\ ~args.account_period[i].special
              /\ args.account_period[i].company_id = args.period.company_id}
Place(i) ==
    Cardinality({j \in Listed : Earlier(args.account_period[j].date_start,
                                        args.account_period[i].date_start)})
PeriodAt(k) == args.account_period[CHOOSE i \in Listed : Place(i) = k]
ContainsPivot(i) ==
    /\ ~Earlier(args.pivot_date, args.account_period[i].date_start)
    /\ ~Earlier(args.account_period[i].date_stop, args.pivot_date)
WindowFrom(i) == Place(i) + args.period.offset
WindowFits(i) ==
    /\ WindowFrom(i) >= 0
    /\ WindowFrom(i) + args.period.duration <= Cardinality(Listed)

\* C17: a fiscal-period instance is valid exactly when a period of the list
\* contains the pivot date and the window [i + offset, i + offset + duration)
\* lies inside the chronologically ordered list (i the place of the pivot's
\* period); when valid, date_from and period_from come from the first period
\* of the window and date_to and period_to from the last; when not valid,
\* date_from, date_to, period_from and period_to are all empty.
C17_FiscalPeriodDates ==
    (pc = "returned" /\ args.period.type = "fp") =>
        /\ ret.valid <=> \E i \in Listed : ContainsPivot(i) /\ WindowFits(i)
        /\ ret.valid =>
               \E i \in Listed :
                   /\ ContainsPivot(i)
                   /\ ret.date_from = PeriodAt(WindowFrom(i)).date_start
                   /\ ret.period_from = PeriodAt(WindowFrom(i)).id
                   /\ ret.date_to =
                          PeriodAt(WindowFrom(i) + args.period.duration - 1).date_stop
                   /\ ret.period_to =
                          PeriodAt(WindowFrom(i) + args.period.duration - 1).id
        /\ ~ret.valid =>
               /\ ret.date_from = NoDate /\ ret.date_to = NoDate
               /\ ret.period_from = NoPeriod /\ ret.period_to = NoPeriod

C17_Witness ==
    /\ pc = "returned" /\ args.period.type = "fp" /\ ret.valid
    /\ args.period.offset = -1 /\ args.period.duration = 2
    /\ args.pivot_date = <<2024, 2, 29>>
    /\ ret.date_from = <<2024, 1, 1>> /\ ret.date_to = <<2024, 2, 29>>
    /\ ret.period_from = 3 /\ ret.period_to = 1
    /\ Len(args.account_period) = 6

\* An instance whose window leaves the list is reached as well.
C17_WitnessInvalid ==
    /\ pc = "returned" /\ args.period.type = "fp" /\ ~ret.valid
    /\ \E i \in Listed : ContainsPivot(i) /\ ~WindowFits(i)

\* The periods the instance knows of, its own and the ones they are compared
\* with, and the ids of those that are not valid.
OwnPeriods == Range(period_ids)
DesignatedBy(p) == Range(p.comparison_column_ids)
KnownPeriods == OwnPeriods \cup UNION {DesignatedBy(p) : p \in OwnPeriods}
InvalidIds == {p.id : p \in {q \in KnownPeriods : ~q.valid}}
GridRows == Content(result)
GridHeaderCols(g) == result[g].header[1].cols
IsOwnCell(cell) == "period_id" \in DOMAIN cell

\* C18: MisReportInstance._compute skips every invalid period entirely: no
\* KPI evaluation is run for it, it adds no header column and no cell to any
\* row, and it is never used as the base of a comparison column.
C18_InvalidPeriodsSkipped ==
    /\ \A i \in 1..Len(computed) : computed[i].period \notin InvalidIds
    /\ DOMAIN kpi_values_by_period_ids \cap InvalidIds = {}
    /\ period_id \notin InvalidIds
    /\ pc = "returned" =>
        /\ \A g \in 1..Len(result) : \A j \in 1..Len(GridHeaderCols(g)) :
               Range(GridHeaderCols(g)[j].name) \cap InvalidIds = {}
        /\ \A r \in 1..Len(GridRows) :
            /\ \A g \in 1..Len(result) :
                   Len(GridRows[r].cols) = Len(GridHeaderCols(g))
            /\ \A j \in 1..Len(GridRows[r].cols) :
                   IsOwnCell(GridRows[r].cols[j]) =>
                       GridRows[r].cols[j].period_id \notin InvalidIds

C18_Witness ==
    /\ pc = "returned" /\ Len(GridRows) > 0
    /\ \E p \in OwnPeriods, q \in OwnPeriods :
          /\ p.valid /\ ~q.valid
          /\ q.id \in {c.id : c \in DesignatedBy(p)}
          /\ p.id \in {c.id : c \in DesignatedBy(q)}
          /\ GridHeaderCols(1) = <<[name |-> <<p.id>>, date |-> "header_date"]>>

\* The valid periods a period designates as comparison columns, in the order
\* of the designations, and the header columns they call for: for each valid
\* period of the instance its own column, then one column per designation.
Designations(p) == SelectSeq(p.comparison_column_ids, LAMBDA c : c.valid)
ColumnsCalledFor ==
    Flat([j \in 1..Len(ValidPeriods) |->
            <<<<ValidPeriods[j].id>>>>
            \o [k \in 1..Len(Designations(ValidPeriods[j])) |->
                   <<ValidPeriods[j].id, Designations(ValidPeriods[j])[k].id>>]])

\* C19: every period that a valid period designates as a comparison column
\* is computed, also when it is not one of the instance's own periods, and
\* for each designation one comparison column appears in the header and in
\* every KPI row directly after the designating period's own column, in the
\* order of the designations.
C19_ComparisonColumns ==
    pc = "returned" =>
        /\ \A j \in 1..Len(ValidPeriods) :
               \A c \in Range(Designations(ValidPeriods[j])) :
                   /\ c.id \in DOMAIN kpi_values_by_period_ids
                   /\ \E i \in 1..Len(computed) : computed[i].period = c.id
        /\ \A g \in 1..Len(result) :
               [j \in 1..Len(GridHeaderCols(g)) |-> GridHeaderCols(g)[j].name]
                   = ColumnsCalledFor
        /\ \A r \in 1..Len(GridRows) :
            /\ Len(GridRows[r].cols) = Len(ColumnsCalledFor)
            /\ \A j \in 1..Len(GridRows[r].cols) :
                   IsOwnCell(GridRows[r].cols[j]) <=> Len(ColumnsCalledFor[j]) = 1

\* The KPIs of the report computed, the column group a KPI belongs to (the
\* groups of the grid are in the order of the columns that hold a row) and
\* the group of the grid that shows it.
GridKpis == reports[report_id].kpi_ids
ColumnsUsed == {Column(GridKpis, i) : i \in 1..Len(GridKpis)}
GroupOf(i) ==
    result[Cardinality({c \in ColumnsUsed : c <= Column(GridKpis, i)})]

\* C20: every KPI marked column-title is left out of the content rows of the
\* grid, and its description is the caption (header kpi_name) of the column
\* group it belongs to, whether or not the KPI is also marked column-break.
C20_ColumnTitle ==
    pc = "returned" =>
        \A i \in 1..Len(GridKpis) :
            GridKpis[i].column_title =>
                /\ \A r \in 1..Len(GridRows) :
                       GridRows[r].kpi_unique_name # GridKpis[i].name
                /\ GroupOf(i).header[1].kpi_name = GridKpis[i].description

\* The grid the template of the report would get were it neither matrix nor
\* manual-position, and the end of the computation, with a grid or not.
PlainGrid == AssembleGrid(report_id, kpi_values_by_period_ids)
Ended == pc \in {"returned", "raised"} /\ stack = <<>> /\ period_pos > Len(period_ids)
IsMatrix == reports[report_id].matrix /\ ~reports[report_id].manual_position

\* C21: for a template marked matrix, each column group of the result is the
\* transpose of the non-matrix group: it has one content row per header
\* column of the non-matrix group (periods and comparison columns, in order)
\* and one header column per visible KPI (in order), and the cell at (row i,
\* column j) is the cell the non-matrix grid holds at (KPI row j, column i).
C21_MatrixIsTranspose ==
    (Ended /\ IsMatrix) =>
        /\ pc = "returned"
        /\ Len(result) = Len(PlainGrid)
        /\ \A g \in 1..Len(PlainGrid) :
            LET plain == PlainGrid[g]
                group == result[g]
            IN  /\ Len(group.content) = Len(plain.header[1].cols)
                /\ Len(group.header[1].cols) = Len(plain.content)
                /\ \A i \in 1..Len(group.content) :
                    /\ group.content[i].kpi_name = plain.header[1].cols[i].name
                    /\ Len(group.content[i].cols) = Len(plain.content)
                    /\ \A j \in 1..Len(plain.content) :
                           group.content[i].cols[j] = plain.content[j].cols[i]
                /\ \A j \in 1..Len(plain.content) :
                       group.header[1].cols[j].name = plain.content[j].kpi_name

\* The position entries of the template of the report, those that name a KPI
\* and a period at an interior place, and the result the run computed for
\* the KPI and the instance's period made from that period.
Positions == Range(reports[report_id].position_ids)
CellEntries ==
    {e \in Positions : e.line > 0 /\ e.collumn > 0 /\ e.kpi_id # 0 /\ e.period_id # 0}
PeriodsOf(e) ==
    {p \in Range(period_ids) :
        p.template_period_id = e.period_id /\ p.id \in DOMAIN kpi_values_by_period_ids}
KpiOf(e) == CHOOSE k \in Range(GridKpis) : k.id = e.kpi_id
Computable(e) ==
    PeriodsOf(e) # {} /\ \E k \in Range(GridKpis) : k.id = e.kpi_id
ComputedResult(e) ==
    kpi_values_by_period_ids[(CHOOSE p \in PeriodsOf(e) : TRUE).id][KpiOf(e).name]
IsManual == reports[report_id].manual_position /\ Positions # {}

\* C22: for a manual-position template with any set of position entries of
\* non-negative coordinates, the grid returned holds, for every position
\* entry at line l > 0 and column c > 0 that names KPI x and period P, the
\* computed result of x for P verbatim at row l / column c, and an empty cell
\* at every interior coordinate without a matching entry; also when the
\* largest line and the largest column differ (a cell at line 2, column 3).
C22_ManualPosition ==
    (Ended /\ IsManual) =>
        /\ pc = "returned"
        /\ \A g \in 1..Len(result) :
            LET rows == result[g].content IN
            /\ Len(rows) = PyMax({e.line : e \in Positions})
            /\ \A l \in 1..Len(rows) :
                /\ Len(rows[l].cols) = PyMax({e.collumn : e \in Positions})
                /\ \A c \in 1..Len(rows[l].cols) :
                    /\ \A e \in CellEntries :
                           (e.line = l /\ e.collumn = c /\ Computable(e)) =>
                               rows[l].cols[c] = ComputedResult(e)
                    /\ (\A e \in CellEntries : ~(e.line = l /\ e.collumn = c)) =>
                           rows[l].cols[c] = EmptyDict

\* The names the scope of a run may hold by the claim: the aggregate
\* builtins, the no-data sentinel, the queries of the template, its KPIs and
\* the references to the KPIs of other templates.
Aggregates == {"sum", "min", "max", "len", "avg"}
NamesOfKpis(code) ==
    {reports[code].kpi_ids[i].name : i \in 1..Len(reports[code].kpi_ids)}
ScopeNames ==
    Aggregates \cup {"AccountingNone"} \cup reports[self].query_ids
        \cup NamesOfKpis(self)
        \cup UNION {{code \o "_" \o n : n \in NamesOfKpis(code)} :
                        code \in DOMAIN reports}

\* C23: the scope a KPI formula or style expression is evaluated against
\* holds only the aggregate builtins, the no-data sentinel, the results of
\* the template's queries, the values of already-resolved KPIs and the
\* values of resolved cross-report references; no binding gives the formula
\* access to ambient state of the hosting environment.
C23_ScopeIsClosed ==
    self \in DOMAIN reports =>
        /\ DOMAIN localdict \subseteq ScopeNames
        /\ \A x \in DOMAIN localdict : localdict[x] # Registry

\* The calls of one kind made for a period (0: for no period), and the place
\* of a period in period_ids.
CallsOf(op, pid) == {i \in 1..Len(calls) : calls[i].op = op /\ calls[i].period = pid}
PlaceOf(pid) == CHOOSE i \in 1..Len(period_ids) : period_ids[i].id = pid
PerPeriod == {"_fetch_queries", "do_queries"}

\* C24: in one top-level computation of a report instance whose template
\* holds no cross-report reference, the ledger expression compiler is built
\* and finalized exactly once, before any period is evaluated, and for each
\* valid period, in period order, the auxiliary queries are fetched exactly
\* once and the ledger balances are computed exactly once, both before the
\* first KPI of that period is evaluated.
C24_CompilerOnceQueriesPerPeriod ==
    /\ pc = "begin" => calls = <<>>
    /\ pc # "begin" =>
        /\ Cardinality(CallsOf("_prepare_aep", 0)) = 1
        /\ calls[1].op = "_prepare_aep"
    /\ \A i \in 1..Len(period_ids) : \A op \in PerPeriod :
        /\ Cardinality(CallsOf(op, period_ids[i].id)) <= 1
        /\ ~period_ids[i].valid => CallsOf(op, period_ids[i].id) = {}
        /\ (period_ids[i].valid /\ (pc = "returned" \/ i < period_pos)) =>
               CallsOf(op, period_ids[i].id) # {}
    /\ \A i \in 1..Len(calls) : \A j \in 1..Len(calls) :
           (i < j /\ calls[i].op \in PerPeriod /\ calls[j].op \in PerPeriod) =>
               PlaceOf(calls[i].period) <= PlaceOf(calls[j].period)
    /\ pc \in {"loop", "done"} =>
        /\ CallsOf("_fetch_queries", period_id) # {}
        /\ CallsOf("do_queries", period_id) # {}
        /\ calls[Len(calls)] = [op |-> "do_queries", report |-> self,
                                period |-> period_id]
        /\ trace = <<>> => pos = 1

C24_Witness ==
    /\ pc = "returned" /\ Len(period_ids) = 2
    /\ period_ids[1].valid /\ period_ids[2].valid
    /\ Len(reports["main"].kpi_ids) = 2
    /\ calls = Prepared("main") \o Fetched("main", 1) \o Fetched("main", 2)

\* ---------------------------------------------------------------- C25
\* The templates template c refers to: a KPI of c holds <d>.<name> and
\* template d has a KPI of that name (lines 497-504). The templates reached
\* from c along such references, and whether a template reached from the
\* one computed is reached from itself.
ReportRefs(c) ==
    {d \in DOMAIN reports :
        \E i \in 1..Len(reports[c].kpi_ids) :
            LET subs == sub_expressions(reports[c].kpi_ids[i].expression) IN
            \E j \in 1..Len(subs) :
                /\ subs[j][2] = d
                /\ \E k \in 1..Len(reports[d].kpi_ids) :
                        reports[d].kpi_ids[k].name = subs[j][3]}
RECURSIVE ReportReach(_, _)
ReportReach(S, fuel) ==
    IF fuel = 0 THEN S
    ELSE ReportReach(S \cup UNION {ReportRefs(d) : d \in S}, fuel - 1)
ReportsFrom(c) == ReportReach(ReportRefs(c), Cardinality(DOMAIN reports))
CyclicRefs ==
    \E c \in {"main"} \cup ReportsFrom("main") : c \in ReportsFrom(c)
SomePeriodValid == \E i \in 1..Len(period_ids) : period_ids[i].valid
LimitReached == \E i \in 1..Len(computed) : computed[i].depth = MaxDepth
RecursionFailures == {i \in 1..Len(trace) : trace[i].exc = "RuntimeError"}

C25_Safety ==
    /\ Len(stack) <= MaxDepth
    /\ (pc = "loop" /\ passes = 1 /\ trace = <<>>) => inherit_subreport_vals = EmptyDict
    /\ \A i \in RecursionFailures :
            /\ Len(stack) = MaxDepth
            /\ CyclicRefs
            /\ trace[i].pass = passes =>
                    /\ trace[i].kpi \notin Range(recompute_queue)
                    /\ res[kpi_ids[trace[i].kpi].name].val_r = ERR
                    /\ res[kpi_ids[trace[i].kpi].name].val = PyNone
    /\ ~CyclicRefs =>
            /\ Len(stack) < Cardinality(DOMAIN reports)
            /\ ~LimitReached
    /\ (CyclicRefs /\ SomePeriodValid /\ Ended) => LimitReached
SettledBefore ==
    {trace[i].kpi : i \in {j \in 1..Len(trace) :
                              /\ trace[j].pass < passes
                              /\ ~Retried(trace[j].exc)}}
QueuesChained ==
    /\ \A k \in 1..(Len(pass_log) - 1) :
            /\ pass_log[k + 1].compute = pass_log[k].retry
            /\ Range(pass_log[k + 1].compute) \subseteq Range(pass_log[k].compute)
            /\ Range(pass_log[k + 1].compute) # Range(pass_log[k].compute)
    /\ (pass_log # <<>> /\ passes > Len(pass_log)) =>
            /\ compute_queue = pass_log[Len(pass_log)].retry
            /\ Range(compute_queue) \subseteq Range(pass_log[Len(pass_log)].compute)
            /\ Range(compute_queue) # Range(pass_log[Len(pass_log)].compute)
EvaluatedOnceSettled ==
    \A i, j \in 1..Len(trace) :
        (i < j /\ trace[i].kpi = trace[j].kpi) => Retried(trace[i].exc)
EntriesKept ==
    \A k \in SettledBefore :
        kpi_ids[k].name \in DOMAIN res => res'[kpi_ids[k].name] = res[kpi_ids[k].name]
C26_Step == QueuesChained' /\ EvaluatedOnceSettled' /\ EntriesKept

\* C26: the compute queue of pass k+1 is the retry queue of pass k and a
\* strict subset of the compute queue of pass k; a KPI whose evaluation
\* raised no undefined-name or value error is not evaluated again, and no
\* step of a later pass changes its result entry.
C26_PassesLeaveSettledKpis == [][C26_Step]_vars

\* ---------------------------------------------------------------- C27
\* The names of the KPIs are distinct from one another and from the names
\* the scope is seeded with; the KPIs an evaluation of which raised nothing;
\* the KPIs whose last evaluation raised, which left a marker in the result.
NamesApart ==
    /\ \A i, j \in 1..KpiCount : kpi_ids[i].name = kpi_ids[j].name => i = j
    /\ KpiNames \cap DOMAIN Seed(reports[self]) = {}
EvaluatedClean == {trace[i].kpi : i \in {j \in 1..Len(trace) : trace[j].exc = "none"}}
LastEval(k) == CHOOSE i \in EvalsOf(k) : \A j \in EvalsOf(k) : j <= i
EndedWithMarker ==
    {k \in 1..KpiCount : EvalsOf(k) # {} /\ trace[LastEval(k)].exc # "none"}
BoundIffEvaluated ==
    /\ \A k \in 1..KpiCount :
            kpi_ids[k].name \in DOMAIN localdict <=> k \in EvaluatedClean
    /\ \A k \in EndedWithMarker :
            /\ res[kpi_ids[k].name].val_r \in {DIV0, ERR}
            /\ kpi_ids[k].name \notin DOMAIN localdict

NamesApartIn(kpis) ==
    \A i, j \in 1..Len(kpis) : kpis[i].name = kpis[j].name => i = j
KpiOfRow(n) == CHOOSE k \in Range(GridKpis) : k.name = n
PeriodOfId(i) == CHOOSE p \in KnownPeriods : p.id = i
CellCalledFor(kpi, col) ==
    IF Len(col.name) = 1
    THEN kpi_values_by_period_ids[col.name[1]][kpi.name]
    ELSE [val_r |-> render_comparison(
                kpi,
                kpi_values_by_period_ids[col.name[1]][kpi.name].val,
                kpi_values_by_period_ids[col.name[2]][kpi.name].val,
                PeriodOfId(col.name[1]).normalize_factor,
                PeriodOfId(col.name[2]).normalize_factor)]
\* The header columns in the order of the valid periods, each period's own
\* column followed by its comparison columns only.
OwnColumns(cols) == SelectSeq(cols, LAMBDA c : Len(c.name) = 1)
HeaderInOrder(cols) ==
    /\ [j \in 1..Len(OwnColumns(cols)) |-> OwnColumns(cols)[j].name[1]]
            = [j \in 1..Len(ValidPeriods) |-> ValidPeriods[j].id]
    /\ \A j \in 1..Len(cols) :
            Len(cols[j].name) = 2 =>
                /\ j > 1
                /\ cols[j - 1].name[1] = cols[j].name[1]
                /\ \E p \in OwnPeriods :
                        /\ p.id = cols[j].name[1]
                        /\ cols[j].name[2] \in {c.id : c \in DesignatedBy(p)}

\* C28: in the grid of a template with distinct KPI names, neither matrix
\* nor manual-position, all the column groups have the same header columns,
\* in the order of the valid periods with each period's comparison columns
\* after its own, and every content row of every group has one cell per
\* header column, the cell that column calls for, whatever periods are
\* valid and whatever they are compared with.
C28_RowsMatchHeader ==
    (pc = "returned" /\ NamesApartIn(GridKpis)) =>
        /\ \A g, h \in 1..Len(result) : GridHeaderCols(g) = GridHeaderCols(h)
        /\ \A g \in 1..Len(result) :
            /\ HeaderInOrder(GridHeaderCols(g))
            /\ \A r \in 1..Len(result[g].content) :
                LET row == result[g].content[r] IN
                /\ Len(row.cols) = Len(GridHeaderCols(g))
                /\ \A j \in 1..Len(row.cols) :
                       row.cols[j] = CellCalledFor(KpiOfRow(row.kpi_unique_name),
                                                   GridHeaderCols(g)[j])

\* Two groups with a row each, and a period compared with a valid period,
\* which gives a comparison column after its own, and with an invalid one,
\* which gives none.
C28_Witness ==
    /\ pc = "returned"
    /\ NamesApartIn(GridKpis)
    /\ Len(result) >= 2
    /\ \A g \in 1..Len(result) : result[g].content # <<>>
    /\ \E p \in OwnPeriods :
            /\ p.valid
            /\ \E c \in DesignatedBy(p) : ~c.valid
            /\ \E j \in 1..Len(GridHeaderCols(1)) :
                    /\ Len(GridHeaderCols(1)[j].name) = 2
                    /\ GridHeaderCols(1)[j].name[1] = p.id
    /\ \E r \in 1..Len(GridRows) : \E j \in 1..Len(GridRows[r].cols) :
            ~IsOwnCell(GridRows[r].cols[j])

====
